---- MODULE Spec2Model ----
(***************************************************************************)
(* State-machine model of the detection-and-evidence pipeline of the       *)
(* cyberguard IDS/IPS backend: the hash-chained audit log                  *)
(* (services/blockchain_audit.py), the threshold signature detector        *)
(* (main_realtime.py, main_complete.py), the per-flow evidence buffer and  *)
(* the packet pipeline (services/network_monitor.py), the classifier       *)
(* adapter (services/ids_service.py) and the websocket fan-out hub         *)
(* (services/websocket_manager.py).                                        *)
(*                                                                         *)
(* Each component has its own specification (SpecChain, SpecSyn, ...)      *)
(* over the shared variables; a component's specification leaves the       *)
(* other components' variables unchanged.                                  *)
(***************************************************************************)
EXTENDS Integers, Sequences, FiniteSets, TLC

VARIABLES
    \* ---- BlockchainAudit (services/blockchain_audit.py)
    chain,          \* self.chain: sequence of blocks (TLA+ position i+1 holds index i)
    difficulty,     \* self.difficulty
    mutated,        \* indexes of the blocks whose payload was changed after insertion
    now,            \* the wall clock read by datetime.utcnow() / datetime.now()
    \* ---- ThreatDetector (main_realtime.py, main_complete.py)
    syn_count,      \* attack_patterns["syn_flood"]["count"]
    port_scan_ports,\* attack_patterns["port_scan"]["ports"]
    icmp_count,     \* attack_patterns["icmp_flood"]["count"]
    arp_count,      \* attack_patterns["arp_scan"]["count"]
    threat,         \* what the latest detect_attack call returned
    synFrom         \* per source: SYN-only packets it sent to the target since
                    \* the SYN counter was last zero, the packet that fired the
                    \* latest alert included

chainVars == <<chain, difficulty, mutated, now>>
detVars == <<syn_count, port_scan_ports, icmp_count, arp_count, threat, synFrom>>

VARIABLES
    \* ---- NetworkMonitor (services/network_monitor.py)
    pcap_buffer,    \* self.pcap_buffer: flow key -> frames (empty when the key is absent)
    pcap_data,      \* what the latest _generate_pcap_for_threat call returned, and when
    captured,       \* number of frames _process_packet has handled
    tasks,          \* coroutines handed to the event loop by run_coroutine_threadsafe
    next_id,        \* stands for uuid.uuid4(): the next fresh alert id
    detected_attacks, \* KaliAttackDetector.detected_attacks
    broadcast_log,  \* messages handed to websocket_manager.broadcast_json, in call order
    save_log,       \* alerts handed to database_service.save_threat_alert, with their PCAP
    local_network_only, \* settings.LOCAL_NETWORK_ONLY
    \* ---- IDSService (services/ids_service.py)
    is_initialized, \* ids_service is attached and ids_service.is_initialized
    recent_alerts,  \* self.recent_alerts
    attack_stats,   \* self.attack_stats (total_attacks, blocked_attacks)
    level_call      \* the latest _get_threat_level call: its arguments and result

monVars == <<pcap_buffer, pcap_data, captured, tasks, next_id, detected_attacks,
             broadcast_log, save_log, local_network_only>>
idsVars == <<is_initialized, recent_alerts, attack_stats, level_call>>

VARIABLES
    active_connections, \* WebSocketManager.active_connections
    connection_info,    \* WebSocketManager.connection_info, by socket
    client_state,       \* each socket: "NEW", "CONNECTED", "DISCONNECTED", or
                        \* "BROKEN" (CONNECTED, but send_text raises)
    inbox,              \* the texts each socket's client has received
    bcast,              \* the running broadcast coroutine
    broadcasts          \* number of broadcasts started

hubVars == <<active_connections, connection_info, client_state, inbox, bcast,
             broadcasts>>

VARIABLES
    \* ---- the stand-alone pipeline (ml-iot/realtime_ids_pipeline.py)
    rt_packet_buffer,   \* NetworkMonitor.packet_buffer
    rt_attack_alerts,   \* NetworkMonitor.attack_alerts
    rt_chain            \* blockchain.chain of that module

rtVars == <<rt_packet_buffer, rt_attack_alerts, rt_chain>>

VARIABLES
    \* ---- export_chain / import_chain (services/blockchain_audit.py)
    exported,       \* the latest document export_chain returned, as it is
                    \* now held outside the program
    export_source,  \* the chain that document was exported from
    doc_changed,    \* indexes of the document's blocks changed since
    import_result,  \* how the latest import_chain call ended
    imports         \* number of import_chain calls

portVars == <<exported, export_source, doc_changed, import_result, imports>>

VARIABLES
    \* ---- the auditing endpoints (main.py) on the event loop
    requests,       \* each request's coroutine: its position and its locals
    running,        \* the coroutine that holds the event loop's thread, or 0
    overlap         \* a request began while another one was in flight

auditVars == <<requests, running, overlap>>

VARIABLES
    \* ---- a second broadcast in flight (services/websocket_manager.py)
    bcast_b         \* the broadcast coroutine called after the one of bcast

fifoVars == <<bcast_b>>

VARIABLES
    \* ---- manual threat management (main.py block_threat / unblock_threat)
    admin_result,   \* the latest call: operation, threat id, outcome
    admin_calls     \* number of calls made

adminVars == <<admin_result, admin_calls>>

VARIABLES
    \* ---- the start-up of IDSService (services/ids_service.py)
    model_pipeline, \* self.model_pipeline: the unpickled artifact
    model,          \* self.model
    scaler,         \* self.scaler
    label_encoder,  \* self.label_encoder
    feature_names,  \* self.feature_names
    init_result,    \* how the initialize() call of the start-up ended
    predict_result, \* how the latest predict_attack call ended
    predict_calls   \* number of predict_attack calls made after start-up

startVars == <<model_pipeline, model, scaler, label_encoder, feature_names,
               init_result, predict_result, predict_calls>>

VARIABLES
    \* ---- single calls of ThreatDetector.detect_attack (main_realtime.py)
    packet_in,      \* the packet handed to the latest detect_attack call
    detect_calls    \* number of detect_attack calls made

callVars == <<packet_in, detect_calls>>

VARIABLES
    \* ---- single calls of NetworkMonitor._process_packet
    frame_in        \* the frame handed to the latest _process_packet call

frameVars == <<frame_in>>

VARIABLES
    \* ---- one add_block call followed statement by statement
    job             \* the call: its position, its locals (new_block,
                    \* previous_block) and the digests SHA-256 gives
                    \* new_block at each nonce

mineVars == <<job>>

VARIABLES
    \* ---- targeted delivery (broadcast_to_topic, send_to_user)
    delivery        \* the running call: its position, its arguments, the
                    \* state of its dict iterator, and who it reached

deliveryVars == <<delivery>>

\* The variables of the components examined last.
lateVars == <<callVars, frameVars, mineVars, deliveryVars>>

\* The components beyond the detection pipeline of the backend.
restVars == <<rtVars, portVars, auditVars, fifoVars, adminVars, startVars,
              lateVars>>

vars == <<chainVars, detVars, monVars, idsVars, hubVars, restVars>>

Max(a, b) == IF a >= b THEN a ELSE b

(***************************************************************************)
(* BlockchainAudit                                                         *)
(***************************************************************************)

\* self.difficulty = 4 (number of leading zeros required in a hash)
InitialDifficulty == 4

\* The attempt budget of _mine_block (1000000 in the source, line 70),
\* scaled down so that both outcomes occur: a block mined within the
\* budget, and a budget overrun that lowers the difficulty.
NonceBudget == 8

\* Payloads handed to add_block are opaque values 1..MaxPayload.
MaxPayload == 2

\* Blocks appended after the genesis block.
MaxBlocks == 3

\* The clock runs over 0..MaxTime.
MaxTime == 2

Payloads == 1..MaxPayload

\* The payload of the genesis block (a fixed dict in the source).
GenesisData == 0

\* previous_hash of the genesis block: the string '0'.
ZeroHash == [fp |-> 0, pre |-> <<>>]

\* The value of block['hash'] before mining (None).
NoHash == [fp |-> 0 - 1, pre |-> <<>>]

\* A SHA-256 digest is modelled as the pair of
\*   pre: the serialized fields the digest was computed from (json.dumps with
\*        sort_keys is injective on them, and SHA-256 is taken collision-free),
\*   fp:  a 4-digit binary fingerprint of those fields, standing for the
\*        leading characters of the hex digest.
Fingerprint(index, timestamp, data, prev_fp, nonce) ==
    (3 * index + 5 * timestamp + 7 * data + 11 * prev_fp + nonce) % 16

\* _calculate_hash: the digest of index, timestamp, data, previous_hash and
\* nonce (the block's own hash field is excluded).
calculate_hash(block) ==
    [fp  |-> Fingerprint(block.index, block.timestamp, block.data,
                         Max(block.previous_hash.fp, 0), block.nonce),
     pre |-> <<block.index, block.timestamp, block.data,
               block.previous_hash, block.nonce>>]

\* Number of leading '0' characters of a digest (of its 4 modelled digits).
LeadingZeros(h) ==
    IF h.fp < 0 THEN 0
    ELSE IF h.fp < 1 THEN 4
    ELSE IF h.fp < 2 THEN 3
    ELSE IF h.fp < 4 THEN 2
    ELSE IF h.fp < 8 THEN 1
    ELSE 0

\* hash.startswith("0" * d)
StartsWithZeros(h, d) == LeadingZeros(h) >= d

\* A nonce search that gives up two difficulty levels per budget overrun.
RECURSIVE MineLoopLowerByTwo(_, _, _)
MineLoopLowerByTwo(block, nonce, diff) ==
    LET hash_result == calculate_hash([block EXCEPT !.nonce = nonce])
    IN  IF StartsWithZeros(hash_result, diff)
        THEN [hash |-> hash_result, nonce |-> nonce, difficulty |-> diff]
        ELSE IF nonce + 1 > NonceBudget
             THEN MineLoopLowerByTwo(block, 0, Max(1, diff - 2))
             ELSE MineLoopLowerByTwo(block, nonce + 1, diff)

\* _mine_block: the nonce search. Returns the hash found, the nonce it was
\* found at and the difficulty self.difficulty is left at.
RECURSIVE MineLoop(_, _, _)
MineLoop(block, nonce, diff) ==
    LET hash_result == calculate_hash([block EXCEPT !.nonce = nonce])
    IN  IF StartsWithZeros(hash_result, diff)
        THEN [hash |-> hash_result, nonce |-> nonce, difficulty |-> diff]
        ELSE IF nonce + 1 > NonceBudget
             THEN MineLoop(block, 0, Max(1, diff - 1))
             ELSE MineLoop(block, nonce + 1, diff)

mine_block(block, diff) == MineLoop(block, block.nonce, diff)

\* _is_valid_block, with self.difficulty passed as diff.
is_valid_block(block, previous_block, diff) ==
    /\ block.index = previous_block.index + 1
    /\ block.previous_hash = previous_block.hash
    /\ block.hash = calculate_hash(block)
    /\ StartsWithZeros(block.hash, diff)

\* The loop of is_chain_valid run from i = 0: chain[i - 1] is then chain[-1],
\* the head block.
is_chain_valid_from_zero ==
    \A i \in 1..Len(chain) :
        is_valid_block(chain[i], chain[IF i = 1 THEN Len(chain) ELSE i - 1],
                       difficulty)

\* is_chain_valid: for i in range(1, len(self.chain)).
is_chain_valid ==
    \A i \in 2..Len(chain) : is_valid_block(chain[i], chain[i - 1], difficulty)

\* create_genesis_block, run by __init__ at time t.
GenesisBlock(t) ==
    LET genesis_block == [index |-> 0, timestamp |-> t, data |-> GenesisData,
                          previous_hash |-> ZeroHash, nonce |-> 0,
                          hash |-> NoHash]
        m == mine_block(genesis_block, InitialDifficulty)
    IN  [block |-> [genesis_block EXCEPT !.nonce = m.nonce, !.hash = m.hash],
         difficulty |-> m.difficulty]

\* BlockchainAudit.__init__: the chain holds the mined genesis block.
ChainNew ==
    /\ chain = <<GenesisBlock(now).block>>
    /\ difficulty = GenesisBlock(now).difficulty
    /\ mutated = {}

\* add_block(data): build the block on the head, mine it, validate it against
\* the head and append it; an invalid block raises and leaves the chain alone.
add_block(data) ==
    /\ Len(chain) <= MaxBlocks
    /\ LET previous_block == chain[Len(chain)]
           new_block == [index |-> Len(chain), timestamp |-> now, data |-> data,
                         previous_hash |-> previous_block.hash, nonce |-> 0,
                         hash |-> NoHash]
           m == mine_block(new_block, difficulty)
           mined == [new_block EXCEPT !.nonce = m.nonce, !.hash = m.hash]
       IN  /\ difficulty' = m.difficulty
           /\ chain' = IF is_valid_block(mined, previous_block, m.difficulty)
                       THEN Append(chain, mined)
                       ELSE chain
    /\ UNCHANGED <<mutated, now>>

\* A writer outside add_block changes the payload of block i in place
\* (blocks are plain dicts held in self.chain).
TamperPayload(i, d) ==
    /\ i \in 1..Len(chain)
    /\ (i - 1) \notin mutated
    /\ d # chain[i].data
    /\ chain' = [chain EXCEPT ![i].data = d]
    /\ mutated' = mutated \cup {i - 1}
    /\ UNCHANGED <<difficulty, now>>

\* Time passes.
Tick ==
    /\ now < MaxTime
    /\ now' = now + 1
    /\ UNCHANGED <<chain, difficulty, mutated>>

(***************************************************************************)
(* ThreatDetector.detect_attack (main_realtime.py; main_complete.py holds  *)
(* the same SYN-flood and port-scan branches)                              *)
(***************************************************************************)

\* attack_patterns thresholds
SynThreshold == 50
PortThreshold == 10
IcmpThreshold == 20
ArpThreshold == 30

\* "scanned_ports": list(ports)[-10:]
ListedPorts == 10

\* Destination ports run over 1..MaxPort.
MaxPort == 11

\* self.target_ip, and an address that is not monitored
Target == "192.168.100.124"
Elsewhere == "10.0.0.9"

\* Source addresses
Sources == {"192.168.100.152", "192.168.100.153"}

\* TCP flag values of scapy: SYN = 0x02, ACK = 0x10
SYN == 2
ACK == 16

\* A captured frame: whether it has an IP layer, its addresses, its upper
\* layer and that layer's fields.
Frame(ip, src, dst, layer, flags, dport, size, ttl) ==
    [ip |-> ip, src |-> src, dst |-> dst, layer |-> layer, flags |-> flags,
     dport |-> dport, size |-> size, ttl |-> ttl]

TcpFrame(src, dst, flags, dport) ==
    Frame(TRUE, src, dst, "TCP", flags, dport, 60, 64)
IcmpFrame(src, dst) == Frame(TRUE, src, dst, "ICMP", 0, 0, 84, 64)
\* An ARP frame rides on Ethernet and carries no IP layer.
ArpFrame(src, dst) == Frame(FALSE, src, dst, "ARP", 0, 0, 42, 0)

\* detect_attack returning None
NoThreat ==
    [attack_type |-> "None", threat_level |-> "None", source_ip |-> "None",
     protocol |-> "None", scanned_ports |-> {}, total_ports |-> 0]

Alert(type, level, src, protocol, listed, total) ==
    [attack_type |-> type, threat_level |-> level, source_ip |-> src,
     protocol |-> protocol, scanned_ports |-> listed, total_ports |-> total]

\* packet.haslayer(TCP) and packet[TCP].flags == 2
IsSynOnly(packet) == packet.layer = "TCP" /\ packet.flags = SYN

\* The values list(ports)[-10:] can take: the iteration order of a set is
\* not fixed by the language, so any ListedPorts of the ports may be the
\* last ones.
LastPorts(ports) ==
    IF Cardinality(ports) <= ListedPorts THEN {ports}
    ELSE {listed \in SUBSET ports : Cardinality(listed) = ListedPorts}

IsSynFloodAlert(t) == t.attack_type = "Flood Attacks" /\ t.protocol = "TCP"
IsPortScanAlert(t) == t.attack_type = "Reconnaissance" /\ t.protocol = "TCP"

\* ThreatDetector.__init__
DetNew ==
    /\ syn_count = 0
    /\ port_scan_ports = {}
    /\ icmp_count = 0
    /\ arp_count = 0
    /\ threat = NoThreat
    /\ synFrom = [s \in Sources |-> 0]

\* The per-source record of SYN-only packets: it restarts once the alert of
\* the previous call has been returned.
SynLog(packet) ==
    LET base == IF IsSynFloodAlert(threat) THEN [s \in Sources |-> 0]
                ELSE synFrom
    IN  IF packet.ip /\ packet.dst = Target /\ IsSynOnly(packet)
           /\ packet.src \in Sources
        THEN [base EXCEPT ![packet.src] = @ + 1]
        ELSE base

\* A detector that evaluates its rules on every packet with an IP layer,
\* whatever its destination.
detect_attack_any_destination(packet) ==
    /\ synFrom' = SynLog(packet)
    /\ threat' = NoThreat
    /\ IF ~packet.ip
       THEN UNCHANGED <<syn_count, port_scan_ports, icmp_count, arp_count>>
       ELSE IF IsSynOnly(packet)
       THEN /\ syn_count' = syn_count + 1
            /\ UNCHANGED <<port_scan_ports, icmp_count, arp_count>>
       ELSE IF packet.layer = "TCP"
       THEN /\ port_scan_ports' = port_scan_ports \cup {packet.dport}
            /\ UNCHANGED <<syn_count, icmp_count, arp_count>>
       ELSE IF packet.layer = "ICMP"
       THEN /\ icmp_count' = icmp_count + 1
            /\ UNCHANGED <<syn_count, port_scan_ports, arp_count>>
       ELSE UNCHANGED <<syn_count, port_scan_ports, icmp_count, arp_count>>

\* detect_attack(packet)
detect_attack(packet) ==
    /\ synFrom' = SynLog(packet)
    /\ IF ~packet.ip \/ packet.dst # Target
       THEN \* no IP layer, or not addressed to the monitored target
            /\ threat' = NoThreat
            /\ UNCHANGED <<syn_count, port_scan_ports, icmp_count, arp_count>>
       ELSE IF IsSynOnly(packet)
       THEN \* TCP SYN flood detection
            /\ IF syn_count + 1 > SynThreshold
               THEN /\ threat' = Alert("Flood Attacks", "HIGH", packet.src,
                                       "TCP", {}, 0)
                    /\ syn_count' = 0
               ELSE /\ threat' = NoThreat
                    /\ syn_count' = syn_count + 1
            /\ UNCHANGED <<port_scan_ports, icmp_count, arp_count>>
       ELSE IF packet.layer = "TCP"
       THEN \* port scan detection
            LET ports == port_scan_ports \cup {packet.dport}
            IN  /\ IF Cardinality(ports) > PortThreshold
                   THEN /\ \E listed \in LastPorts(ports) :
                              threat' = Alert("Reconnaissance", "MEDIUM",
                                              packet.src, "TCP", listed,
                                              Cardinality(ports))
                        /\ port_scan_ports' = {}
                   ELSE /\ threat' = NoThreat
                        /\ port_scan_ports' = ports
                /\ UNCHANGED <<syn_count, icmp_count, arp_count>>
       ELSE IF packet.layer = "ICMP"
       THEN \* ICMP flood detection
            /\ IF icmp_count + 1 > IcmpThreshold
               THEN /\ threat' = Alert("Flood Attacks", "MEDIUM", packet.src,
                                       "ICMP", {}, 0)
                    /\ icmp_count' = 0
               ELSE /\ threat' = NoThreat
                    /\ icmp_count' = icmp_count + 1
            /\ UNCHANGED <<syn_count, port_scan_ports, arp_count>>
       ELSE IF packet.layer = "ARP"
       THEN \* ARP scan detection
            /\ IF arp_count + 1 > ArpThreshold
               THEN /\ threat' = Alert("Reconnaissance", "LOW", packet.src,
                                       "ARP", {}, 0)
                    /\ arp_count' = 0
               ELSE /\ threat' = NoThreat
                    /\ arp_count' = arp_count + 1
            /\ UNCHANGED <<syn_count, port_scan_ports, icmp_count>>
       ELSE /\ threat' = NoThreat
            /\ UNCHANGED <<syn_count, port_scan_ports, icmp_count, arp_count>>

\* Detector calls made one at a time.
MaxDetectCalls == 3

\* A packet object built with an ARP layer on top of an IP layer
\* (IP(dst=...)/ARP()): the only kind of packet that passes the IP test of
\* detect_attack and reaches its ARP branch.
IpArpFrame(src, dst) == Frame(TRUE, src, dst, "ARP", 0, 0, 62, 64)

\* No call made yet.
CallNew ==
    /\ packet_in = Frame(FALSE, "None", "None", "None", 0, 0, 0, 0)
    /\ detect_calls = 0

\* States of the detector earlier traffic leaves behind: each counter at
\* zero or at its threshold (after 50 SYN-only segments, 20 ICMP packets),
\* the port set empty or holding PortThreshold ports.
DetReached ==
    /\ syn_count \in {0, SynThreshold}
    /\ port_scan_ports \in {{}, 1..PortThreshold}
    /\ icmp_count \in {0, IcmpThreshold}
    /\ arp_count = 0
    /\ threat = NoThreat
    /\ synFrom = [s \in Sources |->
                     IF s = "192.168.100.152" THEN syn_count ELSE 0]

\* One call detect_attack(packet), the packet kept.
detect_attack_call(packet) ==
    /\ detect_attack(packet)
    /\ packet_in' = packet
    /\ detect_calls' = detect_calls + 1

\* Frames of every kind the detector tells apart, to the monitored target
\* and to another address.
DetectFeed ==
    {TcpFrame("192.168.100.152", dst, f, p) :
        dst \in {Target, Elsewhere}, f \in {SYN, ACK}, p \in {1, MaxPort}}
    \cup {IcmpFrame("192.168.100.152", dst) : dst \in {Target, Elsewhere}}
    \cup {ArpFrame("192.168.100.152", dst) : dst \in {Target, Elsewhere}}
    \cup {IpArpFrame("192.168.100.152", dst) : dst \in {Target, Elsewhere}}

\* The frames fed to the detector when the SYN-flood rule is examined:
\* SYN-only segments from every source, other TCP segments, and frames the
\* detector ignores.
SynFeed ==
    {TcpFrame(s, Target, SYN, 1) : s \in Sources}
    \cup {TcpFrame(s, Target, f, p) : s \in Sources, f \in {ACK, SYN + ACK},
                                      p \in {1, 2}}
    \cup {TcpFrame(s, Elsewhere, SYN, 1) : s \in Sources}
    \cup {ArpFrame(s, Target) : s \in Sources}

\* The frames fed to the detector when the port-scan rule is examined:
\* TCP segments to every port from every source, SYN-only segments from one
\* source, and frames the detector ignores.
ScanFeed ==
    {TcpFrame(s, Target, ACK, p) : s \in Sources, p \in 1..MaxPort}
    \cup {TcpFrame("192.168.100.152", Target, SYN, MaxPort),
          TcpFrame("192.168.100.152", Elsewhere, ACK, 1)}

(***************************************************************************)
(* IDSService (services/ids_service.py)                                    *)
(***************************************************************************)

\* The labels of AttackType (models/schemas.py), and a label the bundled
\* label encoder may hold that AttackType does not.
AttackTypeValues ==
    {"Flood Attacks", "Botnet/Mirai Attacks", "Backdoors & Exploits",
     "Injection Attacks", "Reconnaissance", "Spoofing / MITM", "Benign"}

Labels == AttackTypeValues \cup {"Unknown"}

\* Confidence in hundredths: 0.7 is 70.
Confidences == 0..100

\* threat_mapping.get(class_name, 'MEDIUM')
BaseLevel(class_name) ==
    CASE class_name = "Flood Attacks" -> "HIGH"
      [] class_name = "Botnet/Mirai Attacks" -> "HIGH"
      [] class_name = "Backdoors & Exploits" -> "CRITICAL"
      [] class_name = "Injection Attacks" -> "HIGH"
      [] class_name = "Spoofing / MITM" -> "MEDIUM"
      [] class_name = "Reconnaissance" -> "LOW"
      [] OTHER -> "MEDIUM"

\* level_downgrade.get(base_level, 'LOW')
LevelDowngrade(base_level) ==
    CASE base_level = "CRITICAL" -> "HIGH"
      [] base_level = "HIGH" -> "MEDIUM"
      [] base_level = "MEDIUM" -> "LOW"
      [] OTHER -> "LOW"

\* _get_threat_level with the comparison confidence <= 0.7.
get_threat_level_inclusive(class_name, confidence) ==
    IF class_name = "Benign" THEN "LOW"
    ELSE IF confidence <= 70 THEN LevelDowngrade(BaseLevel(class_name))
    ELSE BaseLevel(class_name)

\* _get_threat_level(class_name, confidence)
get_threat_level(class_name, confidence) ==
    IF class_name = "Benign" THEN "LOW"
    ELSE IF confidence < 70 THEN LevelDowngrade(BaseLevel(class_name))
    ELSE BaseLevel(class_name)

\* One call of _get_threat_level, its arguments and its result kept.
LevelCall(class_name, confidence) ==
    [class_name |-> class_name, confidence |-> confidence,
     level |-> get_threat_level(class_name, confidence)]

\* A caller evaluates _get_threat_level on some label and confidence.
get_threat_level_call ==
    /\ \E class_name \in Labels, confidence \in Confidences :
          level_call' = LevelCall(class_name, confidence)
    /\ UNCHANGED <<is_initialized, recent_alerts, attack_stats>>

\* recent_alerts keeps the last 100 alerts.
RecentAlertsCap == 100

\* The last n elements of a sequence: seq[-n:]
LastN(seq, n) ==
    IF Len(seq) <= n THEN seq ELSE SubSeq(seq, Len(seq) - n + 1, Len(seq))

\* A ThreatAlert / alert dict.
NoAlert ==
    [id |-> 0, source_ip |-> "None", destination_ip |-> "None",
     attack_type |-> "None", threat_level |-> "None", confidence |-> 0,
     detection_method |-> "None", blocked |-> FALSE]

\* What the bundled model answers for one feature vector: a class name and
\* a confidence, or an exception (missing model, shape mismatch).
ClassifierError == [ok |-> FALSE, class_name |-> "None", confidence |-> 0]

ClassifierAnswer(class_name, confidence) ==
    [ok |-> TRUE, class_name |-> class_name, confidence |-> confidence]

\* predict_attack up to the construction of the ThreatAlert: the alert, or
\* NoAlert when the call raises (the model raised, or AttackType(class_name)
\* rejects a label that is not in the enum).
PredictedAlert(answer, packet_info, id) ==
    IF ~answer.ok \/ answer.class_name \notin AttackTypeValues THEN NoAlert
    ELSE [id |-> id, source_ip |-> packet_info.source_ip,
          destination_ip |-> packet_info.destination_ip,
          attack_type |-> answer.class_name,
          threat_level |-> get_threat_level(answer.class_name,
                                            answer.confidence),
          confidence |-> answer.confidence, detection_method |-> "ml",
          blocked |-> FALSE]

\* IDSService.__init__, then initialize() when the service is attached.
IdsNew ==
    /\ recent_alerts = <<>>
    /\ attack_stats = [total_attacks |-> 0, blocked_attacks |-> 0]
    /\ level_call = LevelCall("Benign", 0)

(***************************************************************************)
(* Network helpers (utils/network_utils.py) and settings (core/config.py)  *)
(***************************************************************************)

Kali == "192.168.100.152"
External == "203.0.113.7"
Remote == "198.51.100.9"
Hosts == {Kali, Target, External, Remote}

\* is_local_network_ip(ip, "192.168.100.0/24"); also ip.startswith("192.168.100.")
is_local_network_ip(ip) == ip \in {Kali, Target, "192.168.100.153"}

\* is_internal_attack(source_ip, dest_ip)
is_internal_attack(source_ip, dest_ip) ==
    is_local_network_ip(source_ip) /\ is_local_network_ip(dest_ip)

\* settings.MONITOR_INTERNAL_ATTACKS (default True)
MonitorInternalAttacks == TRUE

(***************************************************************************)
(* KaliAttackDetector (services/kali_attack_detector.py)                   *)
(***************************************************************************)

\* packet_info.get(...) of a field the frame does not carry
Absent == 0 - 1

\* _extract_packet_features: the fields the detectors read.
extract_packet_features(packet) ==
    [source_ip |-> packet.src, destination_ip |-> packet.dst,
     protocol |-> CASE packet.layer = "TCP" -> 6
                    [] packet.layer = "UDP" -> 17
                    [] packet.layer = "ICMP" -> 1
                    [] OTHER -> 0,
     packet_size |-> packet.size, ttl |-> packet.ttl,
     destination_port |-> IF packet.layer \in {"TCP", "UDP"} THEN packet.dport
                          ELSE Absent,
     tcp_flags |-> IF packet.layer = "TCP" THEN packet.flags ELSE Absent]

detect_nmap_scan(packet_info) ==
    \/ packet_info.protocol = 6 /\ packet_info.tcp_flags = 2
    \/ /\ packet_info.destination_port \in {22, 23, 53, 80, 110, 443, 993, 995}
       /\ packet_info.packet_size < 100

detect_port_scan(packet_info) ==
    /\ packet_info.protocol = 6
    /\ packet_info.packet_size < 80
    /\ packet_info.ttl < 64

detect_flood_attack(packet_info) ==
    /\ packet_info.packet_size > 1000
    /\ ~is_local_network_ip(packet_info.source_ip)

detect_web_attack(packet_info) ==
    /\ packet_info.destination_port \in {80, 443, 8000, 3000, 8080}
    /\ packet_info.packet_size > 500

\* The signature analyze_packet matches first, or "none".
MatchedSignature(packet_info) ==
    IF detect_nmap_scan(packet_info) THEN "nmap_syn_scan"
    ELSE IF detect_port_scan(packet_info) THEN "nmap_version_scan"
    ELSE IF detect_flood_attack(packet_info) THEN "ddos_flood"
    ELSE IF detect_web_attack(packet_info) THEN "nikto_scan"
    ELSE "none"

\* _create_attack_alert(attack_type, packet_info)
create_attack_alert(signature, packet_info, id) ==
    [id |-> id, source_ip |-> packet_info.source_ip,
     destination_ip |-> packet_info.destination_ip,
     attack_type |-> IF signature = "ddos_flood" THEN "Flood Attacks"
                     ELSE "Reconnaissance",
     threat_level |-> CASE signature = "nmap_syn_scan" -> "MEDIUM"
                        [] signature = "ddos_flood" -> "CRITICAL"
                        [] OTHER -> "HIGH",
     confidence |-> 85, detection_method |-> "kali_signature",
     blocked |-> FALSE]

(***************************************************************************)
(* NetworkMonitor (services/network_monitor.py)                            *)
(***************************************************************************)

\* The per-key capacity of pcap_buffer (100 in the source, line 155) and
\* pcap_window_seconds (30 in the source, line 55), scaled down so that a
\* buffer fills and a frame ages out within the modelled time.
PcapBufferCap == 3
PcapWindowSeconds == 1

\* Frames handled in the specification of the evidence buffer, and in the
\* specification of the pipeline.
MaxFrames == 5
MaxPackets == 2

FlowKeys == Hosts \X Hosts

\* _generate_pcap_for_threat returning None
NoPcap == [frames |-> <<>>, at |-> Absent]

\* list.sort(key=timestamp): a stable insertion sort.
RECURSIVE InsertByTimestamp(_, _)
InsertByTimestamp(sorted, pkt) ==
    IF sorted = <<>> THEN <<pkt>>
    ELSE IF sorted[Len(sorted)].timestamp <= pkt.timestamp
         THEN Append(sorted, pkt)
         ELSE Append(InsertByTimestamp(SubSeq(sorted, 1, Len(sorted) - 1), pkt),
                     sorted[Len(sorted)])

RECURSIVE SortByTimestamp(_)
SortByTimestamp(seq) ==
    IF seq = <<>> THEN <<>>
    ELSE InsertByTimestamp(SortByTimestamp(SubSeq(seq, 1, Len(seq) - 1)),
                           seq[Len(seq)])

\* The frames of one key that are not older than the capture window.
RecentPackets(key) ==
    SelectSeq(pcap_buffer[key],
              LAMBDA pkt : pkt.timestamp >= now - PcapWindowSeconds)

\* _generate_pcap_for_threat(source_ip, dest_ip, threat_id): the frames of
\* both directions within the window, sorted by timestamp.
generate_pcap_for_threat(source_ip, dest_ip) ==
    LET relevant_packets == RecentPackets(<<source_ip, dest_ip>>)
                            \o RecentPackets(<<dest_ip, source_ip>>)
    IN  IF relevant_packets = <<>> THEN NoPcap
        ELSE [frames |-> SortByTimestamp(relevant_packets), at |-> now]

\* What _generate_pcap_for_threat returns: the snapshot, or None when
\* scapy is missing or the frames cannot be written.
PcapOutcomes(source_ip, dest_ip) ==
    {generate_pcap_for_threat(source_ip, dest_ip), NoPcap}

\* A caller asks for the evidence of a conversation.
generate_pcap_call(source_ip, dest_ip) ==
    /\ pcap_data' \in PcapOutcomes(source_ip, dest_ip)
    /\ UNCHANGED <<pcap_buffer, captured, tasks, next_id, detected_attacks,
                   broadcast_log, save_log, local_network_only>>

\* The payload log_threat_detection records for an alert (the chain's
\* payloads are numbers here; 100 + id stands for the event of alert id).
ThreatEvent(threat_id) == 100 + threat_id

\* A coroutine of the event loop.
Task(kind, packet_info, alert) ==
    [kind |-> kind, pc |-> "start", packet_info |-> packet_info,
     alert |-> alert, pcap |-> NoPcap]

\* NetworkMonitor.__init__ and start()
MonNew ==
    /\ pcap_buffer = [key \in FlowKeys |-> <<>>]
    /\ pcap_data = NoPcap
    /\ captured = 0
    /\ tasks = <<>>
    /\ next_id = 1
    /\ detected_attacks = <<>>
    /\ broadcast_log = <<>>
    /\ save_log = <<>>

\* A _process_packet whose signature detector sits inside the branch of the
\* classifier: without an initialized IDS service the frame is buffered
\* and nothing else happens.
process_packet_classifier_first(packet) ==
    /\ captured' = captured + 1
    /\ IF ~packet.ip
       THEN UNCHANGED <<pcap_buffer, tasks, next_id, detected_attacks>>
       ELSE LET packet_info == extract_packet_features(packet)
                packet_key == <<packet_info.source_ip, packet_info.destination_ip>>
                raw_packet_data == [timestamp |-> now, key |-> packet_key]
                signature == MatchedSignature(packet_info)
                kali_attack == create_attack_alert(signature, packet_info, next_id)
            IN  /\ pcap_buffer' =
                      [pcap_buffer EXCEPT ![packet_key] =
                          LastN(Append(@, raw_packet_data), PcapBufferCap)]
                /\ IF ~is_initialized
                   THEN UNCHANGED <<tasks, next_id, detected_attacks>>
                   ELSE IF signature = "none"
                   THEN /\ tasks' = Append(tasks, Task("ml", packet_info, NoAlert))
                        /\ UNCHANGED <<next_id, detected_attacks>>
                   ELSE /\ tasks' = tasks
                                    \o <<Task("ml", packet_info, NoAlert),
                                         Task("kali", packet_info, kali_attack)>>
                        /\ next_id' = next_id + 1
                        /\ detected_attacks' = Append(detected_attacks, kali_attack)
    /\ UNCHANGED <<pcap_data, broadcast_log, save_log, local_network_only>>
    /\ UNCHANGED idsVars

\* _process_packet(packet), run by the capture thread: buffer the frame,
\* schedule the classifier coroutine when the IDS service is ready, run the
\* signature detector and schedule its alert coroutine.
process_packet(packet) ==
    /\ captured' = captured + 1
    /\ IF ~packet.ip
       THEN UNCHANGED <<pcap_buffer, tasks, next_id, detected_attacks>>
       ELSE LET packet_info == extract_packet_features(packet)
                packet_key == <<packet_info.source_ip, packet_info.destination_ip>>
                raw_packet_data == [timestamp |-> now, key |-> packet_key]
                ml_tasks == IF is_initialized
                            THEN <<Task("ml", packet_info, NoAlert)>>
                            ELSE <<>>
                signature == MatchedSignature(packet_info)
                kali_attack == create_attack_alert(signature, packet_info, next_id)
            IN  /\ pcap_buffer' =
                      [pcap_buffer EXCEPT ![packet_key] =
                          LastN(Append(@, raw_packet_data), PcapBufferCap)]
                /\ IF signature = "none"
                   THEN /\ tasks' = tasks \o ml_tasks
                        /\ UNCHANGED <<next_id, detected_attacks>>
                   ELSE /\ tasks' = tasks \o ml_tasks
                                    \o <<Task("kali", packet_info, kali_attack)>>
                        /\ next_id' = next_id + 1
                        /\ detected_attacks' = Append(detected_attacks, kali_attack)
    /\ UNCHANGED <<pcap_data, broadcast_log, save_log, local_network_only>>
    /\ UNCHANGED idsVars

\* A coroutine starts only after the ones scheduled before it have started.
CanRun(i) ==
    /\ i \in 1..Len(tasks)
    /\ tasks[i].pc = "start" => \A j \in 1..(i - 1) : tasks[j].pc # "start"

\* The local-network pre-filter of _analyze_packet_for_threats.
FilteredOut(packet_info) ==
    /\ local_network_only
    /\ \/ ~(is_local_network_ip(packet_info.source_ip)
            \/ is_local_network_ip(packet_info.destination_ip))
       \/ /\ MonitorInternalAttacks
          /\ ~is_internal_attack(packet_info.source_ip,
                                 packet_info.destination_ip)
          /\ ~is_local_network_ip(packet_info.source_ip)

\* The test that decides whether the classifier's alert is sent.
ThreatDetected(alert) ==
    alert.attack_type # "BENIGN" /\ alert.confidence > 70

\* _analyze_packet_for_threats up to its first await that suspends: the
\* pre-filter, predict_attack (which records a malicious alert in
\* recent_alerts and attack_stats), the test of the result, and the call
\* of broadcast_json.
analyze_start(i, answer) ==
    /\ CanRun(i)
    /\ tasks[i].kind = "ml" /\ tasks[i].pc = "start"
    /\ LET packet_info == tasks[i].packet_info
           alert == PredictedAlert(answer, packet_info, next_id)
       IN  IF FilteredOut(packet_info) \/ alert = NoAlert
           THEN \* filtered out, or predict_attack raised: logged, no alert
                /\ tasks' = [tasks EXCEPT ![i].pc = "done"]
                /\ UNCHANGED <<next_id, recent_alerts, attack_stats,
                               broadcast_log>>
           ELSE /\ next_id' = next_id + 1
                /\ IF answer.class_name # "Benign"
                   THEN /\ recent_alerts' =
                              LastN(Append(recent_alerts, alert), RecentAlertsCap)
                        /\ attack_stats' =
                              [attack_stats EXCEPT !.total_attacks = @ + 1]
                   ELSE UNCHANGED <<recent_alerts, attack_stats>>
                /\ IF ThreatDetected(alert)
                   THEN /\ tasks' = [tasks EXCEPT ![i].pc = "broadcast",
                                                  ![i].alert = alert]
                        /\ broadcast_log' = Append(broadcast_log, alert)
                   ELSE /\ tasks' = [tasks EXCEPT ![i].pc = "done"]
                        /\ UNCHANGED broadcast_log
    /\ UNCHANGED <<pcap_buffer, pcap_data, captured, detected_attacks, save_log,
                   local_network_only, is_initialized, level_call>>

\* broadcast_json has returned: generate the PCAP of the conversation and
\* hand the alert with it to database_service.save_threat_alert.
analyze_save(i) ==
    /\ CanRun(i)
    /\ tasks[i].kind = "ml" /\ tasks[i].pc = "broadcast"
    /\ \E pcap \in PcapOutcomes(tasks[i].alert.source_ip,
                                tasks[i].alert.destination_ip) :
           /\ pcap_data' = pcap
           /\ save_log' = Append(save_log,
                                 [alert |-> tasks[i].alert, pcap |-> pcap])
           /\ tasks' = [tasks EXCEPT ![i].pc = "save", ![i].pcap = pcap]
    /\ UNCHANGED <<pcap_buffer, captured, next_id, detected_attacks,
                   broadcast_log, local_network_only>>
    /\ UNCHANGED idsVars

\* save_threat_alert has returned (True, False or an exception: each is
\* only logged).
analyze_done(i) ==
    /\ CanRun(i)
    /\ tasks[i].kind = "ml" /\ tasks[i].pc = "save"
    /\ tasks' = [tasks EXCEPT ![i].pc = "done"]
    /\ UNCHANGED <<pcap_buffer, pcap_data, captured, next_id, detected_attacks,
                   broadcast_log, save_log, local_network_only>>
    /\ UNCHANGED idsVars

\* _send_kali_attack_alert up to its await: the call of broadcast_json.
send_kali_attack_alert(i) ==
    /\ CanRun(i)
    /\ tasks[i].kind = "kali" /\ tasks[i].pc = "start"
    /\ broadcast_log' = Append(broadcast_log, tasks[i].alert)
    /\ tasks' = [tasks EXCEPT ![i].pc = "broadcast"]
    /\ UNCHANGED <<pcap_buffer, pcap_data, captured, next_id, detected_attacks,
                   save_log, local_network_only>>
    /\ UNCHANGED idsVars

\* broadcast_json has returned to _send_kali_attack_alert, which ends.
send_kali_attack_alert_done(i) ==
    /\ CanRun(i)
    /\ tasks[i].kind = "kali" /\ tasks[i].pc = "broadcast"
    /\ tasks' = [tasks EXCEPT ![i].pc = "done"]
    /\ UNCHANGED <<pcap_buffer, pcap_data, captured, next_id, detected_attacks,
                   broadcast_log, save_log, local_network_only>>
    /\ UNCHANGED idsVars

\* The answers of the bundled model that the pipeline is run against.
ClassifierAnswers ==
    {ClassifierError}
    \cup {ClassifierAnswer(class_name, confidence) :
             class_name \in {"Benign", "Backdoors & Exploits", "Unknown"},
             confidence \in {65, 70, 90}}

\* Frames that match no signature: UDP datagrams of a conversation, in both
\* directions, and a datagram a host sends to itself.
QuietFrame(src, dst) == Frame(TRUE, src, dst, "UDP", 0, 9999, 200, 64)

EvidenceFeed ==
    {QuietFrame(Kali, Target), QuietFrame(Target, Kali), QuietFrame(Kali, Kali)}

\* Frames of the pipeline: a SYN probe from the local attacker, a large
\* segment from outside, a SYN probe between two hosts outside the subnet,
\* a quiet datagram, and a frame without an IP layer.
PipeFeed ==
    {Frame(TRUE, Kali, Target, "TCP", SYN, 22, 60, 64),
     Frame(TRUE, External, Target, "TCP", ACK, 8080, 1200, 50),
     Frame(TRUE, External, Remote, "TCP", SYN, 22, 60, 64),
     QuietFrame(Target, Kali),
     ArpFrame(Kali, Target)}

\* Frames captured while the classifier is failing or missing.
MaxDegradedPackets == 2

\* One call _process_packet(packet), the frame kept.
process_packet_call(packet) ==
    /\ process_packet(packet)
    /\ frame_in' = packet

\* A classifier that is failing: the model raises, or it answers with a
\* label AttackType rejects; now and then it answers properly.
DegradedAnswers ==
    {ClassifierError, ClassifierAnswer("Unknown", 90),
     ClassifierAnswer("Backdoors & Exploits", 90)}

\* A SYN probe from the local attacker, a quiet datagram and a frame
\* without an IP layer.
DegradedFeed ==
    {Frame(TRUE, Kali, Target, "TCP", SYN, 22, 60, 64),
     QuietFrame(Target, Kali),
     ArpFrame(Kali, Target)}

(***************************************************************************)
(* WebSocketManager (services/websocket_manager.py)                        *)
(***************************************************************************)

Sockets == {"ws1", "ws2", "ws3"}
Messages == 1..2
MaxBroadcasts == 2

\* Membership in a list.
InList(x, list) == \E k \in 1..Len(list) : list[k] = x

\* list.remove(x): the list without the first occurrence of x.
Remove(list, x) ==
    LET k == CHOOSE k \in 1..Len(list) :
                 list[k] = x /\ \A m \in 1..(k - 1) : list[m] # x
    IN  SubSeq(list, 1, k - 1) \o SubSeq(list, k + 1, Len(list))

\* The elements of a list.
Elements(list) == {list[k] : k \in 1..Len(list)}

\* No broadcast is running.
Idle ==
    [pc |-> "idle", message |-> 0, connections |-> <<>>, idx |-> 1,
     disconnected |-> <<>>, delivered |-> {}]

\* WebSocketManager.__init__, no socket opened yet.
HubNew ==
    /\ active_connections = <<>>
    /\ connection_info = [ws \in {} |-> 0]
    /\ client_state = [ws \in Sockets |-> "NEW"]
    /\ inbox = [ws \in Sockets |-> <<>>]
    /\ bcast = Idle
    /\ broadcasts = 0

\* connect(websocket), for a socket that was just opened.
connect(websocket) ==
    /\ client_state[websocket] = "NEW"
    /\ client_state' = [client_state EXCEPT ![websocket] = "CONNECTED"]
    /\ active_connections' = Append(active_connections, websocket)
    /\ connection_info' =
          [ws \in DOMAIN connection_info \cup {websocket} |->
              IF ws = websocket
              THEN [user_id |-> "None", subscriptions |-> {}]
              ELSE connection_info[ws]]
    /\ UNCHANGED <<inbox, bcast, broadcasts>>

\* The state disconnect(websocket) leaves, from the given list and dict.
AfterDisconnect(websocket, state) ==
    IF InList(websocket, state.active_connections)
    THEN [active_connections |-> Remove(state.active_connections, websocket),
          connection_info |->
              [ws \in DOMAIN state.connection_info \ {websocket} |->
                  state.connection_info[ws]]]
    ELSE state

\* disconnect(websocket), called by the /ws endpoint when its receive loop
\* ends on a closed socket.
disconnect(websocket) ==
    /\ client_state[websocket] \in {"DISCONNECTED", "BROKEN"}
    /\ InList(websocket, active_connections)
    /\ LET after == AfterDisconnect(websocket,
                        [active_connections |-> active_connections,
                         connection_info |-> connection_info])
       IN  /\ active_connections' = after.active_connections
           /\ connection_info' = after.connection_info
    /\ UNCHANGED <<client_state, inbox, bcast, broadcasts>>

\* The peer closes the socket, or the transport breaks under it.
SocketFails(websocket, how) ==
    /\ client_state[websocket] = "CONNECTED"
    /\ client_state' = [client_state EXCEPT ![websocket] = how]
    /\ UNCHANGED <<active_connections, connection_info, inbox, bcast,
                   broadcasts>>

\* broadcast(message), up to the loop: the list is copied.
broadcast_begin(message) ==
    /\ bcast.pc = "idle"
    /\ broadcasts < MaxBroadcasts
    /\ broadcasts' = broadcasts + 1
    /\ bcast' = [pc |-> "loop", message |-> message,
                 connections |-> active_connections, idx |-> 1,
                 disconnected |-> <<>>, delivered |-> {}]
    /\ UNCHANGED <<active_connections, connection_info, client_state, inbox>>

\* One iteration of a loop that gives up at the first failed delivery.
broadcast_step_abort(connection) ==
    IF client_state[connection] = "CONNECTED"
    THEN /\ inbox' = [inbox EXCEPT ![connection] = Append(@, bcast.message)]
         /\ bcast' = [bcast EXCEPT !.idx = @ + 1,
                                   !.delivered = @ \cup {connection}]
    ELSE /\ bcast' = [bcast EXCEPT !.idx = Len(bcast.connections) + 1,
                                   !.disconnected = Append(@, connection)]
         /\ UNCHANGED inbox

\* One iteration of the loop of broadcast: send_text to a socket that is
\* CONNECTED; a socket in another state, or one whose send_text raises, is
\* noted in disconnected.
broadcast_step(connection) ==
    IF client_state[connection] = "CONNECTED"
    THEN /\ inbox' = [inbox EXCEPT ![connection] = Append(@, bcast.message)]
         /\ bcast' = [bcast EXCEPT !.idx = @ + 1,
                                   !.delivered = @ \cup {connection}]
    ELSE /\ bcast' = [bcast EXCEPT !.idx = @ + 1,
                                   !.disconnected = Append(@, connection)]
         /\ UNCHANGED inbox

\* The loop of broadcast advances by one connection of the copy.
broadcast_loop ==
    /\ bcast.pc = "loop"
    /\ bcast.idx <= Len(bcast.connections)
    /\ broadcast_step(bcast.connections[bcast.idx])
    /\ UNCHANGED <<active_connections, connection_info, client_state,
                   broadcasts>>

\* disconnect applied to each socket of a list in turn.
RECURSIVE DisconnectAll(_, _)
DisconnectAll(list, state) ==
    IF list = <<>> THEN state
    ELSE DisconnectAll(Tail(list), AfterDisconnect(Head(list), state))

\* The end of broadcast: every noted socket is disconnected, and the call
\* returns.
broadcast_finish ==
    /\ bcast.pc = "loop"
    /\ bcast.idx > Len(bcast.connections)
    /\ LET after == DisconnectAll(bcast.disconnected,
                        [active_connections |-> active_connections,
                         connection_info |-> connection_info])
       IN  /\ active_connections' = after.active_connections
           /\ connection_info' = after.connection_info
    /\ bcast' = [bcast EXCEPT !.pc = "idle"]
    /\ UNCHANGED <<client_state, inbox, broadcasts>>

(***************************************************************************)
(* The stand-alone pipeline (ml-iot/realtime_ids_pipeline.py)              *)
(***************************************************************************)

\* deque(maxlen=1000), deque(maxlen=100), and the packets get_traffic_stats
\* looks at.
RtPacketBufferCap == 1000
RtAttackAlertsCap == 100
RtStatsWindow == 100

\* Packets handled by the stand-alone pipeline.
MaxRtPackets == 3

\* previous_hash of the genesis block
RtZeroHash == [pre |-> <<>>]

\* BlockchainAudit.calculate_hash(previous_hash, data, timestamp): the
\* digest of the concatenation, kept as its preimage.
rt_calculate_hash(previous_hash, data, timestamp) ==
    [pre |-> <<previous_hash, data, timestamp>>]

\* BlockchainAudit.create_genesis_block
RtGenesisBlock ==
    [index |-> 0, timestamp |-> 0, data |-> <<"Genesis Block - IoT IDS Started">>,
     previous_hash |-> RtZeroHash,
     hash |-> rt_calculate_hash(RtZeroHash,
                                <<"Genesis Block - IoT IDS Started">>, 0)]

\* BlockchainAudit.add_block(data): the chain after the call.
rt_add_block(data) ==
    LET previous_block == rt_chain[Len(rt_chain)]
        new_block == [index |-> Len(rt_chain), timestamp |-> now, data |-> data,
                      previous_hash |-> previous_block.hash,
                      hash |-> rt_calculate_hash(previous_block.hash, data, now)]
    IN  Append(rt_chain, new_block)

\* NetworkMonitor.get_threat_level(class_name, confidence)
rt_get_threat_level(class_name, confidence) ==
    IF class_name = "Benign" THEN "None"
    ELSE IF class_name \in {"Flood Attacks", "Botnet/Mirai Attacks",
                            "Backdoors & Exploits"}
         THEN (IF confidence > 90 THEN "Critical" ELSE "High")
    ELSE IF class_name \in {"Injection Attacks", "Spoofing / MITM"} THEN "Medium"
    ELSE IF class_name = "Reconnaissance" THEN "Low"
    ELSE "Unknown"

\* predict_packet returning None
RtNoResult ==
    [ok |-> FALSE, prediction |-> "None", confidence |-> 0,
     is_malicious |-> FALSE, threat_level |-> "None"]

\* NetworkMonitor.predict_packet(packet_features): the result dict, or
\* None when anything raised.
predict_packet(answer) ==
    IF ~answer.ok THEN RtNoResult
    ELSE [ok |-> TRUE, prediction |-> answer.class_name,
          confidence |-> answer.confidence,
          is_malicious |-> answer.class_name # "Benign",
          threat_level |-> rt_get_threat_level(answer.class_name,
                                               answer.confidence)]

\* NetworkMonitor.packet_handler(packet), run by the sniff thread. A frame
\* without an IP layer has no features and is dropped.
packet_handler(packet, answer) ==
    IF ~packet.ip THEN UNCHANGED rtVars
    ELSE LET result == predict_packet(answer)
             attack_info == [source_ip |-> packet.src, dest_ip |-> packet.dst,
                             attack_type |-> result.prediction,
                             threat_level |-> result.threat_level,
                             confidence |-> result.confidence]
             packet_info == [src_ip |-> packet.src, dst_ip |-> packet.dst,
                             prediction |-> IF result.ok THEN result.prediction
                                            ELSE "Unknown",
                             is_malicious |-> IF result.ok
                                              THEN result.is_malicious
                                              ELSE FALSE]
         IN  /\ IF result.ok /\ result.is_malicious
                THEN /\ rt_attack_alerts' =
                           LastN(Append(rt_attack_alerts, attack_info),
                                 RtAttackAlertsCap)
                     /\ rt_chain' = rt_add_block(<<"Attack Detected",
                                                   attack_info.attack_type,
                                                   attack_info.source_ip, now>>)
                ELSE UNCHANGED <<rt_attack_alerts, rt_chain>>
             /\ rt_packet_buffer' =
                   LastN(Append(rt_packet_buffer, packet_info),
                         RtPacketBufferCap)

\* NetworkMonitor.get_traffic_stats()
get_traffic_stats ==
    LET recent_packets == LastN(rt_packet_buffer, RtStatsWindow)
        total == Len(recent_packets)
        malicious == Cardinality({k \in 1..total : recent_packets[k].is_malicious})
    IN  [total |-> total, malicious |-> malicious, benign |-> total - malicious]

\* NetworkMonitor.__init__ and the module's blockchain = BlockchainAudit()
RtNew ==
    /\ rt_packet_buffer = <<>>
    /\ rt_attack_alerts = <<>>
    /\ rt_chain = <<RtGenesisBlock>>

\* Frames seen by the stand-alone pipeline.
RtFeed ==
    {QuietFrame(Kali, Target), QuietFrame(External, Target),
     ArpFrame(Kali, Target)}

(***************************************************************************)
(* BlockchainAudit.export_chain / import_chain                             *)
(***************************************************************************)

\* import_chain calls made.
MaxImports == 2

\* A block as json.dumps writes it: the values of its keys.
EncodeBlock(block) ==
    <<block.index, block.timestamp, block.data, block.previous_hash,
      block.nonce, block.hash>>

\* A block as json.loads reads it back.
DecodeBlock(text) ==
    [index |-> text[1], timestamp |-> text[2], data |-> text[3],
     previous_hash |-> text[4], nonce |-> text[5], hash |-> text[6]]

\* json.dumps(self.chain, indent=2)
json_dumps(blocks) == [k \in 1..Len(blocks) |-> EncodeBlock(blocks[k])]

\* json.loads(chain_data)
json_loads(chain_data) == [k \in 1..Len(chain_data) |-> DecodeBlock(chain_data[k])]

\* is_chain_valid of an instance holding the given blocks and difficulty.
is_chain_valid_of(blocks, diff) ==
    \A i \in 2..Len(blocks) : is_valid_block(blocks[i], blocks[i - 1], diff)

\* No document exported yet.
PortNew ==
    /\ exported = <<>>
    /\ export_source = <<>>
    /\ doc_changed = {}
    /\ import_result = "none"
    /\ imports = 0

\* export_chain('json')
export_chain ==
    /\ exported' = json_dumps(chain)
    /\ export_source' = chain
    /\ doc_changed' = {}
    /\ UNCHANGED <<chain, difficulty, mutated, now, import_result, imports>>

\* Outside the program, the payload of one block of the document is
\* rewritten; with rehash, the block's hash field is recomputed for it.
RewriteDocument(i, d, rehash) ==
    /\ i \in 1..Len(exported)
    /\ doc_changed = {}
    /\ d # exported[i][3]
    /\ LET block == [DecodeBlock(exported[i]) EXCEPT !.data = d]
           written == IF rehash
                      THEN [block EXCEPT !.hash = calculate_hash(block)]
                      ELSE block
       IN  exported' = [exported EXCEPT ![i] = EncodeBlock(written)]
    /\ doc_changed' = {i - 1}
    /\ UNCHANGED <<chain, difficulty, mutated, now, export_source,
                   import_result, imports>>

\* import_chain(chain_data): the document is parsed and validated by a
\* fresh BlockchainAudit (whose __init__ mines its own genesis block, at
\* the time of the call); a valid chain replaces self.chain, an invalid one
\* raises ValueError. (mutated records the rewritten blocks a chain took in.)
import_chain(chain_data) ==
    /\ imports < MaxImports
    /\ imports' = imports + 1
    /\ LET imported_chain == json_loads(chain_data)
           temp_difficulty == GenesisBlock(now).difficulty
       IN  IF is_chain_valid_of(imported_chain, temp_difficulty)
           THEN /\ chain' = imported_chain
                /\ mutated' = mutated \cup doc_changed
                /\ import_result' = "imported"
           ELSE /\ chain' = chain
                /\ mutated' = mutated
                /\ import_result' = "ValueError"
    /\ UNCHANGED <<difficulty, now, exported, export_source, doc_changed>>

(***************************************************************************)
(* The auditing endpoints of main.py (start_network_scan,                  *)
(* update_system_config): coroutines of one event loop calling add_block   *)
(***************************************************************************)

\* Requests served.
MaxRequests == 2

Requests == 1..MaxRequests

\* A request whose coroutine has not started.
NewRequest ==
    [pc |-> "new", data |-> 0, previous_block |-> <<>>, new_block |-> <<>>]

\* A coroutine that gives the thread back at every step.
SuspendsAnywhere(pc) == pc \in {"awaiting", "mine", "append", "done"}

\* The positions at which a coroutine gives the event loop's thread back:
\* its awaits (of ids_service.start_scan, of the update_config calls) and
\* its end. add_block is a plain function with no await in it.
Suspends(pc) == pc \in {"awaiting", "done"}

\* Who holds the thread after request r reached position pc.
LoopAfter(r, pc) == IF Suspends(pc) THEN 0 ELSE r

\* Request r may take a step: the thread is free, or r holds it.
MayRun(r) == running \in {0, r}

AuditNew ==
    /\ requests = [r \in Requests |-> NewRequest]
    /\ running = 0
    /\ overlap = FALSE

\* The endpoint is entered and awaits the service call that precedes its
\* audit entry.
endpoint_begin(r, data) ==
    /\ MayRun(r)
    /\ requests[r].pc = "new"
    /\ requests' = [requests EXCEPT ![r].pc = "awaiting", ![r].data = data]
    /\ running' = LoopAfter(r, "awaiting")
    /\ overlap' = (overlap \/ \E q \in Requests \ {r} :
                                 requests[q].pc \notin {"new", "done"})
    /\ UNCHANGED chainVars

\* The awaited call has returned; add_block reads the head of the chain
\* and builds the block on it.
add_block_build(r) ==
    /\ MayRun(r)
    /\ requests[r].pc = "awaiting"
    /\ LET previous_block == chain[Len(chain)]
           new_block == [index |-> Len(chain), timestamp |-> now,
                         data |-> requests[r].data,
                         previous_hash |-> previous_block.hash, nonce |-> 0,
                         hash |-> NoHash]
       IN  requests' = [requests EXCEPT ![r].pc = "mine",
                                        ![r].previous_block = previous_block,
                                        ![r].new_block = new_block]
    /\ running' = LoopAfter(r, "mine")
    /\ UNCHANGED <<chainVars, overlap>>

\* add_block mines the block.
add_block_mine(r) ==
    /\ MayRun(r)
    /\ requests[r].pc = "mine"
    /\ LET m == mine_block(requests[r].new_block, difficulty)
       IN  /\ difficulty' = m.difficulty
           /\ requests' = [requests EXCEPT ![r].pc = "append",
                                           ![r].new_block.nonce = m.nonce,
                                           ![r].new_block.hash = m.hash]
    /\ running' = LoopAfter(r, "append")
    /\ UNCHANGED <<chain, mutated, now, overlap>>

\* add_block validates the block against the head it read and appends it
\* (or raises, which the endpoint turns into an HTTP 500); the endpoint
\* returns.
add_block_append(r) ==
    /\ MayRun(r)
    /\ requests[r].pc = "append"
    /\ chain' = IF is_valid_block(requests[r].new_block,
                                  requests[r].previous_block, difficulty)
                THEN Append(chain, requests[r].new_block)
                ELSE chain
    /\ requests' = [requests EXCEPT ![r].pc = "done"]
    /\ running' = LoopAfter(r, "done")
    /\ UNCHANGED <<difficulty, mutated, now, overlap>>

\* The attack classifications the stand-alone pipeline appends blocks for
\* while the endpoints run.
AuditFeedAnswers ==
    {ClassifierAnswer("Backdoors & Exploits", 90), ClassifierAnswer("Benign", 90)}

(***************************************************************************)
(* Two broadcasts in flight (services/websocket_manager.py): the coroutine *)
(* of bcast, and a second call of broadcast made after it, which runs      *)
(* whenever the first one is suspended in an await of send_text            *)
(***************************************************************************)

\* The message of the second call, unlike every message of the first.
LaterMessage == Cardinality(Messages) + 1

\* A broadcast coroutine is not running on the event loop: it has not been
\* called or has returned, or it is suspended in the await of the
\* send_text it last called.
InAwait(b) ==
    \/ b.pc = "idle"
    \/ /\ b.pc = "loop"
       /\ b.idx > 1
       /\ b.connections[b.idx - 1] \in b.delivered

\* broadcast(LaterMessage), called after the first broadcast was called:
\* the list is copied.
later_broadcast_begin ==
    /\ bcast_b = Idle
    /\ broadcasts >= 1
    /\ bcast_b' = [pc |-> "loop", message |-> LaterMessage,
                   connections |-> active_connections, idx |-> 1,
                   disconnected |-> <<>>, delivered |-> {}]
    /\ UNCHANGED hubVars

\* One iteration of the loop of the second broadcast.
later_broadcast_loop ==
    /\ bcast_b.pc = "loop"
    /\ bcast_b.idx <= Len(bcast_b.connections)
    /\ LET connection == bcast_b.connections[bcast_b.idx]
       IN  IF client_state[connection] = "CONNECTED"
           THEN /\ inbox' = [inbox EXCEPT
                                ![connection] = Append(@, bcast_b.message)]
                /\ bcast_b' = [bcast_b EXCEPT !.idx = @ + 1,
                                              !.delivered = @ \cup {connection}]
           ELSE /\ bcast_b' = [bcast_b EXCEPT
                                  !.idx = @ + 1,
                                  !.disconnected = Append(@, connection)]
                /\ UNCHANGED inbox
    /\ UNCHANGED <<active_connections, connection_info, client_state, bcast,
                   broadcasts>>

\* The end of the second broadcast.
later_broadcast_finish ==
    /\ bcast_b.pc = "loop"
    /\ bcast_b.idx > Len(bcast_b.connections)
    /\ LET after == DisconnectAll(bcast_b.disconnected,
                        [active_connections |-> active_connections,
                         connection_info |-> connection_info])
       IN  /\ active_connections' = after.active_connections
           /\ connection_info' = after.connection_info
    /\ bcast_b' = [bcast_b EXCEPT !.pc = "idle"]
    /\ UNCHANGED <<client_state, inbox, bcast, broadcasts>>

(***************************************************************************)
(* Manual threat management: the endpoints block_threat / unblock_threat   *)
(* of main.py and IDSService.block_threat / unblock_threat                 *)
(***************************************************************************)

\* Alerts predicted, and block / unblock calls made.
MaxAlerts == 2
MaxAdminCalls == 3

AdminNew ==
    /\ admin_result = [op |-> "none", threat_id |-> 0, status |-> 0]
    /\ admin_calls = 0

\* predict_attack(network_features) called on its own: the alert is built
\* and, unless it is benign, kept in recent_alerts and counted; a failing
\* model raises and nothing is recorded.
predict_attack(packet_info, answer) ==
    /\ is_initialized
    /\ LET alert == PredictedAlert(answer, packet_info, next_id)
       IN  IF alert = NoAlert
           THEN UNCHANGED <<next_id, recent_alerts, attack_stats>>
           ELSE /\ next_id' = next_id + 1
                /\ IF answer.class_name # "Benign"
                   THEN /\ recent_alerts' =
                              LastN(Append(recent_alerts, alert), RecentAlertsCap)
                        /\ attack_stats' =
                              [attack_stats EXCEPT !.total_attacks = @ + 1]
                   ELSE UNCHANGED <<recent_alerts, attack_stats>>
    /\ UNCHANGED <<pcap_buffer, pcap_data, captured, tasks, detected_attacks,
                   broadcast_log, save_log, local_network_only, is_initialized,
                   level_call>>

\* The position of the first alert of recent_alerts with the given id, or 0.
FindAlert(threat_id) ==
    IF \E k \in 1..Len(recent_alerts) : recent_alerts[k].id = threat_id
    THEN CHOOSE k \in 1..Len(recent_alerts) :
             /\ recent_alerts[k].id = threat_id
             /\ \A m \in 1..(k - 1) : recent_alerts[m].id # threat_id
    ELSE 0

\* The endpoint block_threat(threat_id) with IDSService.block_threat: the
\* alert found is marked blocked and counted; an unknown id ends in an
\* HTTP error.
block_threat(threat_id) ==
    /\ admin_calls' = admin_calls + 1
    /\ LET k == FindAlert(threat_id)
       IN  IF k = 0
           THEN /\ admin_result' = [op |-> "block", threat_id |-> threat_id,
                                    status |-> 500]
                /\ UNCHANGED <<recent_alerts, attack_stats>>
           ELSE /\ recent_alerts' = [recent_alerts EXCEPT ![k].blocked = TRUE]
                /\ attack_stats' =
                      [attack_stats EXCEPT !.blocked_attacks = @ + 1]
                /\ admin_result' = [op |-> "block", threat_id |-> threat_id,
                                    status |-> 200]
    /\ UNCHANGED <<is_initialized, level_call>>

\* The endpoint unblock_threat(threat_id) with IDSService.unblock_threat.
unblock_threat(threat_id) ==
    /\ admin_calls' = admin_calls + 1
    /\ LET k == FindAlert(threat_id)
       IN  IF k = 0
           THEN /\ admin_result' = [op |-> "unblock", threat_id |-> threat_id,
                                    status |-> 500]
                /\ UNCHANGED <<recent_alerts, attack_stats>>
           ELSE /\ IF recent_alerts[k].blocked
                   THEN /\ recent_alerts' =
                              [recent_alerts EXCEPT ![k].blocked = FALSE]
                        /\ attack_stats' =
                              [attack_stats EXCEPT !.blocked_attacks = @ - 1]
                   ELSE UNCHANGED <<recent_alerts, attack_stats>>
                /\ admin_result' = [op |-> "unblock", threat_id |-> threat_id,
                                    status |-> 200]
    /\ UNCHANGED <<is_initialized, level_call>>

(***************************************************************************)
(* The start-up of the classifier adapter (services/ids_service.py)        *)
(***************************************************************************)

\* predict_attack calls made once the start-up is over.
MaxPredictCalls == 2

None == "None"

\* The keys load_ml_model reads from the artifact.
PipelineKeys == {"model", "scaler", "label_encoder", "feature_names"}

\* What ML_MODEL_PATH and its alternatives hold: no file at any of the
\* paths, a file pickle.load cannot read, or a pickled dict with some of
\* the keys and, under "feature_names", a list of names.
MissingFile == [kind |-> "missing", keys |-> {}, names |-> <<>>]
UnreadableFile == [kind |-> "unreadable", keys |-> {}, names |-> <<>>]
PickledDict(keys, names) == [kind |-> "dict", keys |-> keys, names |-> names]

ModelFiles ==
    {MissingFile, UnreadableFile}
    \cup {PickledDict(keys, <<>>) : keys \in SUBSET PipelineKeys}
    \cup {PickledDict(keys, <<"packet_size">>) :
             keys \in {ks \in SUBSET PipelineKeys : "feature_names" \in ks}}

\* self.model_pipeline = None
NoPipeline == [kind |-> None, keys |-> {}, names |-> <<>>]

\* dict.get(key, default): the value under the key (the object pickled
\* under "model", "scaler" or "label_encoder" is named after its key), or
\* the default when the key is absent.
DictGet(d, key, default) ==
    IF key \notin d.keys THEN default
    ELSE IF key = "feature_names" THEN d.names
    ELSE key

\* IDSService.__init__: nothing loaded (feature_names is None until it is
\* loaded, and is not read before).
StartNew ==
    /\ model_pipeline = NoPipeline
    /\ model = None
    /\ scaler = None
    /\ label_encoder = None
    /\ feature_names = <<>>
    /\ init_result = "none"
    /\ predict_result = "none"
    /\ predict_calls = 0

\* sample_scenarios of _generate_sample_threats
SampleScenarios ==
    << [source_ip |-> "192.168.1.100", destination_ip |-> "192.168.1.1",
        attack_type |-> "Flood Attacks", threat_level |-> "HIGH",
        confidence |-> 92],
       [source_ip |-> "10.0.0.55", destination_ip |-> "192.168.1.10",
        attack_type |-> "Botnet/Mirai Attacks", threat_level |-> "CRITICAL",
        confidence |-> 98],
       [source_ip |-> "203.0.113.42", destination_ip |-> "192.168.1.50",
        attack_type |-> "Injection Attacks", threat_level |-> "HIGH",
        confidence |-> 87],
       [source_ip |-> "198.51.100.15", destination_ip |-> "192.168.1.1",
        attack_type |-> "Reconnaissance", threat_level |-> "MEDIUM",
        confidence |-> 75],
       [source_ip |-> "172.16.0.99", destination_ip |-> "192.168.1.25",
        attack_type |-> "Spoofing / MITM", threat_level |-> "HIGH",
        confidence |-> 89] >>

\* The alerts _generate_sample_threats appends, the first with the given id.
SampleThreats(first_id) ==
    [i \in 1..Len(SampleScenarios) |->
        [id |-> first_id + i - 1,
         source_ip |-> SampleScenarios[i].source_ip,
         destination_ip |-> SampleScenarios[i].destination_ip,
         attack_type |-> SampleScenarios[i].attack_type,
         threat_level |-> SampleScenarios[i].threat_level,
         confidence |-> SampleScenarios[i].confidence,
         detection_method |-> None, blocked |-> FALSE]]

\* initialize() with load_ml_model() and _generate_sample_threats(), as the
\* start-up calls it: a missing or unreadable file raises out of
\* load_ml_model and out of initialize; otherwise the four components are
\* read with dict.get, the service is marked initialized and the sample
\* threats are recorded.
initialize(file) ==
    /\ init_result = "none"
    /\ IF file.kind # "dict"
       THEN /\ init_result' = "raised"
            /\ UNCHANGED <<model_pipeline, model, scaler, label_encoder,
                           feature_names, is_initialized, recent_alerts,
                           attack_stats, next_id>>
       ELSE /\ model_pipeline' = file
            /\ model' = DictGet(file, "model", None)
            /\ scaler' = DictGet(file, "scaler", None)
            /\ label_encoder' = DictGet(file, "label_encoder", None)
            /\ feature_names' = DictGet(file, "feature_names", <<>>)
            /\ is_initialized' = TRUE
            /\ recent_alerts' = recent_alerts \o SampleThreats(next_id)
            /\ attack_stats' =
                  [attack_stats EXCEPT
                      !.total_attacks = @ + Len(SampleScenarios)]
            /\ next_id' = next_id + Len(SampleScenarios)
            /\ init_result' = "returned"
    /\ UNCHANGED <<pcap_buffer, pcap_data, captured, tasks, detected_attacks,
                   broadcast_log, save_log, local_network_only, level_call,
                   predict_result, predict_calls>>

\* predict_attack(network_features) on the adapter as the start-up left it:
\* RuntimeError when the service is not initialized or has no model; a
\* missing scaler or label encoder raises inside the try block; otherwise
\* the call ends as the classifier's answer has it.
predict_attack_call(packet_info, answer) ==
    /\ init_result # "none"
    /\ predict_calls' = predict_calls + 1
    /\ IF ~is_initialized \/ model = None
       THEN /\ predict_result' = "RuntimeError"
            /\ UNCHANGED <<monVars, idsVars>>
       ELSE IF scaler = None \/ label_encoder = None
       THEN /\ predict_result' = "raised"
            /\ UNCHANGED <<monVars, idsVars>>
       ELSE /\ predict_attack(packet_info, answer)
            /\ predict_result' =
                  IF PredictedAlert(answer, packet_info, next_id) = NoAlert
                  THEN "raised" ELSE "returned"
    /\ UNCHANGED <<model_pipeline, model, scaler, label_encoder,
                   feature_names, init_result>>

(***************************************************************************)
(* add_block followed statement by statement (services/blockchain_audit.py):*)
(* the nonce search of _mine_block one iteration at a time, with SHA-256   *)
(* taken as an arbitrary function of the block's fields                    *)
(***************************************************************************)

\* The attempt budget of _mine_block (1000000 in the source, line 70),
\* scaled down so that every assignment of digests to the nonces
\* 0..MineBudget can be enumerated.
MineBudget == 2

\* One digest for each number of leading zeros from 4 down to 0.
FpValues == {0, 1, 2, 4, 8}

\* What the hash function may give the block under search, nonce by nonce.
HashFunctions == [0..MineBudget -> FpValues]

\* No add_block call made yet.
MineNew ==
    job = [pc |-> "idle", new_block |-> <<>>, previous_block |-> <<>>,
           fps |-> [n \in 0..MineBudget |-> 0]]

\* _calculate_hash(block) for the block under search.
JobHash(block) ==
    [fp  |-> job.fps[block.nonce],
     pre |-> <<block.index, block.timestamp, block.data,
               block.previous_hash, block.nonce>>]

\* An add_block that puts the block into the chain first and mines it
\* there.
add_block_begin_in_place(data, fps) ==
    /\ job.pc = "idle"
    /\ LET previous_block == chain[Len(chain)]
           new_block == [index |-> Len(chain), timestamp |-> now,
                         data |-> data,
                         previous_hash |-> previous_block.hash, nonce |-> 0,
                         hash |-> NoHash]
       IN  /\ job' = [pc |-> "mining", new_block |-> new_block,
                      previous_block |-> previous_block, fps |-> fps]
           /\ chain' = Append(chain, new_block)
    /\ UNCHANGED <<difficulty, mutated, now>>

\* add_block(data) up to the call of _mine_block: the block is built on the
\* head of the chain, as a local.
add_block_begin(data, fps) ==
    /\ job.pc = "idle"
    /\ LET previous_block == chain[Len(chain)]
           new_block == [index |-> Len(chain), timestamp |-> now,
                         data |-> data,
                         previous_hash |-> previous_block.hash, nonce |-> 0,
                         hash |-> NoHash]
       IN  job' = [pc |-> "mining", new_block |-> new_block,
                   previous_block |-> previous_block, fps |-> fps]
    /\ UNCHANGED chainVars

\* One iteration of the while loop of _mine_block: return the hash when it
\* meets the target; otherwise take the next nonce and, past the budget,
\* lower the difficulty (not below 1) and restart from nonce 0.
mine_step ==
    /\ job.pc = "mining"
    /\ LET hash_result == JobHash(job.new_block)
           nonce == job.new_block.nonce
       IN  IF StartsWithZeros(hash_result, difficulty)
           THEN /\ job' = [job EXCEPT !.pc = "mined",
                                      !.new_block.hash = hash_result]
                /\ UNCHANGED difficulty
           ELSE IF nonce + 1 > MineBudget
           THEN /\ difficulty' = Max(1, difficulty - 1)
                /\ job' = [job EXCEPT !.new_block.nonce = 0]
           ELSE /\ job' = [job EXCEPT !.new_block.nonce = nonce + 1]
                /\ UNCHANGED difficulty
    /\ UNCHANGED <<chain, mutated, now>>

\* add_block after _mine_block has returned: _is_valid_block against the
\* head read at the start, then append and return, or raise ValueError.
add_block_finish ==
    /\ job.pc = "mined"
    /\ LET block == job.new_block
           previous_block == job.previous_block
       IN  IF /\ block.index = previous_block.index + 1
              /\ block.previous_hash = previous_block.hash
              /\ block.hash = JobHash(block)
              /\ StartsWithZeros(block.hash, difficulty)
           THEN /\ chain' = Append(chain, block)
                /\ job' = [job EXCEPT !.pc = "returned"]
           ELSE /\ chain' = chain
                /\ job' = [job EXCEPT !.pc = "raised"]
    /\ UNCHANGED <<difficulty, mutated, now>>

\* The call ends inside _mine_block: an exception leaves the loop (json.dumps
\* rejects the payload, the process is interrupted), and the locals are
\* dropped.
add_block_abandoned ==
    /\ job.pc = "mining"
    /\ job' = [job EXCEPT !.pc = "raised"]
    /\ UNCHANGED chainVars

(***************************************************************************)
(* Targeted delivery (services/websocket_manager.py): broadcast_to_topic   *)
(* and send_to_user, which walk connection_info.items() and call           *)
(* send_personal_message for every matching socket                         *)
(***************************************************************************)

Topics == {"alerts"}
UserIds == {"admin"}

\* No targeted delivery called yet.
NoDelivery ==
    [pc |-> "idle", kind |-> "None", key |-> "None", message |-> 0,
     order |-> <<>>, idx |-> 1, used |-> 0, matching |-> {},
     delivered |-> {}, failed |-> {}]

\* set_user_id(websocket, user_id)
set_user_id(websocket, user_id) ==
    /\ delivery.pc = "idle"
    /\ websocket \in DOMAIN connection_info
    /\ connection_info[websocket].user_id # user_id
    /\ connection_info' =
          [connection_info EXCEPT ![websocket].user_id = user_id]
    /\ UNCHANGED <<active_connections, client_state, inbox, bcast,
                   broadcasts, delivery>>

\* subscribe_to_topic(websocket, topic)
subscribe_to_topic(websocket, topic) ==
    /\ delivery.pc = "idle"
    /\ websocket \in DOMAIN connection_info
    /\ topic \notin connection_info[websocket].subscriptions
    /\ connection_info' =
          [connection_info EXCEPT ![websocket].subscriptions = @ \cup {topic}]
    /\ UNCHANGED <<active_connections, client_state, inbox, bcast,
                   broadcasts, delivery>>

\* The test of the loop body: topic in info["subscriptions"] for
\* broadcast_to_topic, info["user_id"] == user_id for send_to_user.
Matches(info, kind, key) ==
    IF kind = "topic" THEN key \in info.subscriptions
    ELSE info.user_id = key

\* broadcast_to_topic(topic, message) / send_to_user(user_id, message) up
\* to the loop: iter(self.connection_info.items()) notes the size of the
\* dict; the dict is in insertion order, the order of active_connections.
deliver_begin(kind, key, message) ==
    /\ delivery.pc = "idle"
    /\ bcast.pc = "idle"
    /\ delivery' =
          [pc |-> "loop", kind |-> kind, key |-> key, message |-> message,
           order |-> active_connections, idx |-> 1,
           used |-> Cardinality(DOMAIN connection_info),
           matching |-> {ws \in DOMAIN connection_info :
                            Matches(connection_info[ws], kind, key)},
           delivered |-> {}, failed |-> {}]
    /\ UNCHANGED hubVars

\* One turn of the for loop. next() on the dict iterator raises
\* RuntimeError when the size of the dict differs from the size noted at
\* the start (the test comes before the test for exhaustion), and nothing
\* in the two methods catches it; otherwise the loop ends, or the next
\* item is tested and send_personal_message is awaited: send_text for a
\* CONNECTED socket, disconnect for a socket in another state or one
\* whose send_text raises.
deliver_loop ==
    /\ delivery.pc = "loop"
    /\ IF Cardinality(DOMAIN connection_info) # delivery.used
       THEN /\ delivery' = [delivery EXCEPT !.pc = "raised"]
            /\ UNCHANGED hubVars
       ELSE IF delivery.idx > Len(delivery.order)
       THEN /\ delivery' = [delivery EXCEPT !.pc = "returned"]
            /\ UNCHANGED hubVars
       ELSE LET websocket == delivery.order[delivery.idx]
            IN  IF ~Matches(connection_info[websocket], delivery.kind,
                            delivery.key)
                THEN /\ delivery' = [delivery EXCEPT !.idx = @ + 1]
                     /\ UNCHANGED hubVars
                ELSE IF client_state[websocket] = "CONNECTED"
                THEN /\ inbox' = [inbox EXCEPT ![websocket] =
                                      Append(@, delivery.message)]
                     /\ delivery' = [delivery EXCEPT
                                        !.idx = @ + 1,
                                        !.delivered = @ \cup {websocket}]
                     /\ UNCHANGED <<active_connections, connection_info,
                                    client_state, bcast, broadcasts>>
                ELSE LET after == AfterDisconnect(websocket,
                                     [active_connections |-> active_connections,
                                      connection_info |-> connection_info])
                     IN  /\ active_connections' = after.active_connections
                         /\ connection_info' = after.connection_info
                         /\ delivery' = [delivery EXCEPT
                                            !.idx = @ + 1,
                                            !.failed = @ \cup {websocket}]
                         /\ UNCHANGED <<client_state, inbox, bcast,
                                        broadcasts>>

(***************************************************************************)
(* Specifications                                                          *)
(***************************************************************************)

\* The components examined last, freshly constructed.
LateNew ==
    /\ CallNew
    /\ frame_in = Frame(FALSE, "None", "None", "None", 0, 0, 0, 0)
    /\ MineNew
    /\ delivery = NoDelivery

\* The components beyond the detection pipeline, freshly constructed.
RestNew ==
    /\ RtNew
    /\ PortNew
    /\ AuditNew
    /\ bcast_b = Idle
    /\ AdminNew
    /\ StartNew
    /\ LateNew

\* Every component but the threshold detector freshly constructed.
AllButDetNew ==
    /\ ChainNew
    /\ MonNew
    /\ IdsNew
    /\ HubNew
    /\ RestNew
    /\ local_network_only = FALSE

\* Every component freshly constructed, without the IDS service attached.
AllNew ==
    /\ ChainNew
    /\ DetNew
    /\ MonNew
    /\ IdsNew
    /\ HubNew
    /\ RestNew
    /\ local_network_only = FALSE

InitChain ==
    /\ now \in 0..MaxTime
    /\ AllNew
    /\ is_initialized = FALSE

NextChain ==
    /\ \/ \E data \in Payloads : add_block(data)
       \/ \E i \in 1..(MaxBlocks + 1), d \in Payloads \cup {GenesisData} :
             TamperPayload(i, d)
       \/ Tick
    /\ UNCHANGED <<detVars, monVars, idsVars, hubVars, restVars>>

SpecChain == InitChain /\ [][NextChain]_vars

InitDet ==
    /\ now = 0
    /\ AllNew
    /\ is_initialized = FALSE

NextSyn ==
    /\ \E packet \in SynFeed : detect_attack(packet)
    /\ UNCHANGED <<chainVars, monVars, idsVars, hubVars, restVars>>

SpecSyn == InitDet /\ [][NextSyn]_vars

NextScan ==
    /\ \E packet \in ScanFeed : detect_attack(packet)
    /\ UNCHANGED <<chainVars, monVars, idsVars, hubVars, restVars>>

SpecScan == InitDet /\ [][NextScan]_vars

\* _get_threat_level on its own.
InitLevel ==
    /\ now = 0
    /\ ChainNew /\ DetNew /\ MonNew /\ HubNew /\ RestNew
    /\ local_network_only = FALSE
    /\ is_initialized = TRUE
    /\ recent_alerts = <<>>
    /\ attack_stats = [total_attacks |-> 0, blocked_attacks |-> 0]
    /\ \E class_name \in Labels, confidence \in Confidences :
          level_call = LevelCall(class_name, confidence)

NextLevel ==
    /\ get_threat_level_call
    /\ UNCHANGED <<chainVars, detVars, monVars, hubVars, restVars>>

SpecLevel == InitLevel /\ [][NextLevel]_vars

\* The evidence buffer: a monitor built without an IDS service, fed frames
\* of one conversation while time passes.
InitEvidence ==
    /\ now = 0
    /\ AllNew
    /\ is_initialized = FALSE

NextEvidence ==
    \/ /\ captured < MaxFrames
       /\ \E packet \in EvidenceFeed : process_packet(packet)
       /\ UNCHANGED <<chainVars, detVars, hubVars, restVars>>
    \/ /\ \E source_ip \in {Kali}, dest_ip \in {Kali, Target} :
             generate_pcap_call(source_ip, dest_ip)
       /\ UNCHANGED <<chainVars, detVars, idsVars, hubVars, restVars>>
    \/ /\ Tick
       /\ UNCHANGED <<detVars, monVars, idsVars, hubVars, restVars>>

SpecEvidence == InitEvidence /\ [][NextEvidence]_vars

\* The evidence buffer of a monitor that keeps running: the capture thread
\* and the clock go on for as long as they can.
SpecEvidenceLive == SpecEvidence /\ WF_vars(NextEvidence)

\* The packet pipeline: the capture thread and the coroutines of the event
\* loop, with the IDS service initialized.
InitPipe ==
    /\ now = 0
    /\ ChainNew /\ DetNew /\ MonNew /\ IdsNew /\ HubNew /\ RestNew
    /\ local_network_only \in BOOLEAN
    /\ is_initialized = TRUE

NextPipe ==
    /\ \/ /\ captured < MaxPackets
          /\ \E packet \in PipeFeed : process_packet(packet)
       \/ \E i \in 1..Len(tasks), answer \in ClassifierAnswers :
             analyze_start(i, answer)
       \/ \E i \in 1..Len(tasks) : analyze_save(i)
       \/ \E i \in 1..Len(tasks) : analyze_done(i)
       \/ \E i \in 1..Len(tasks) : send_kali_attack_alert(i)
       \/ \E i \in 1..Len(tasks) : send_kali_attack_alert_done(i)
    /\ UNCHANGED <<chainVars, detVars, hubVars, restVars>>

SpecPipe == InitPipe /\ [][NextPipe]_vars

\* The packet pipeline with a classifier that is missing (the IDS service
\* is not initialized) or failing.
InitDegraded ==
    /\ now = 0
    /\ AllNew
    /\ is_initialized \in BOOLEAN

NextDegraded ==
    /\ \/ /\ captured < MaxDegradedPackets
          /\ \E packet \in DegradedFeed : process_packet_call(packet)
       \/ /\ \/ \E i \in 1..Len(tasks), answer \in DegradedAnswers :
                   analyze_start(i, answer)
             \/ \E i \in 1..Len(tasks) : analyze_save(i)
             \/ \E i \in 1..Len(tasks) : analyze_done(i)
             \/ \E i \in 1..Len(tasks) : send_kali_attack_alert(i)
             \/ \E i \in 1..Len(tasks) : send_kali_attack_alert_done(i)
          /\ UNCHANGED frameVars
    /\ UNCHANGED <<chainVars, detVars, hubVars, rtVars, portVars, auditVars,
                   fifoVars, adminVars, startVars, callVars, mineVars,
                   deliveryVars>>

SpecDegraded == InitDegraded /\ [][NextDegraded]_vars

\* The hub: sockets connect, fail and are disconnected while messages are
\* broadcast.
InitHub ==
    /\ now = 0
    /\ AllNew
    /\ is_initialized = FALSE

NextHub ==
    /\ \/ \E websocket \in Sockets : connect(websocket)
       \/ \E websocket \in Sockets : disconnect(websocket)
       \/ \E websocket \in Sockets, how \in {"DISCONNECTED", "BROKEN"} :
             SocketFails(websocket, how)
       \/ \E message \in Messages : broadcast_begin(message)
       \/ broadcast_loop
       \/ broadcast_finish
    /\ UNCHANGED <<chainVars, detVars, monVars, idsVars, restVars>>

SpecHub == InitHub /\ [][NextHub]_vars

\* The stand-alone pipeline handling packets.
InitRt ==
    /\ now = 0
    /\ AllNew
    /\ is_initialized = FALSE

NextRt ==
    /\ Len(rt_packet_buffer) < MaxRtPackets
    /\ \E packet \in RtFeed, answer \in ClassifierAnswers :
          packet_handler(packet, answer)
    /\ UNCHANGED <<chainVars, detVars, monVars, idsVars, hubVars, portVars,
                   auditVars, fifoVars, adminVars, startVars,
                   lateVars>>

SpecRt == InitRt /\ [][NextRt]_vars

\* The audit chain with its export and import: blocks are appended while
\* time passes, the chain is exported, the document may be rewritten, and
\* it is imported back.
InitPort ==
    /\ now \in 0..MaxTime
    /\ AllNew
    /\ is_initialized = FALSE

NextPort ==
    /\ \/ /\ \E data \in Payloads : add_block(data)
          /\ UNCHANGED portVars
       \/ /\ Tick
          /\ UNCHANGED portVars
       \/ export_chain
       \/ \E i \in 1..(MaxBlocks + 1), d \in Payloads \cup {GenesisData},
             rehash \in BOOLEAN : RewriteDocument(i, d, rehash)
       \/ /\ exported # <<>>
          /\ import_chain(exported)
    /\ UNCHANGED <<detVars, monVars, idsVars, hubVars, rtVars, auditVars,
                   fifoVars, adminVars, startVars,
                   lateVars>>

SpecPort == InitPort /\ [][NextPort]_vars

\* Concurrent requests to the auditing endpoints, served by one event
\* loop, while time passes; beside them, the stand-alone pipeline's sniff
\* thread, the only caller of its own add_block.
InitAudit ==
    /\ now = 0
    /\ AllNew
    /\ is_initialized = FALSE

NextAudit ==
    /\ \/ /\ \/ \E r \in Requests, data \in Payloads : endpoint_begin(r, data)
             \/ \E r \in Requests : add_block_build(r)
             \/ \E r \in Requests : add_block_mine(r)
             \/ \E r \in Requests : add_block_append(r)
          /\ UNCHANGED rtVars
       \/ /\ running = 0
          /\ Tick
          /\ UNCHANGED <<auditVars, rtVars>>
       \/ /\ Len(rt_packet_buffer) < MaxRtPackets
          /\ \E answer \in AuditFeedAnswers :
                packet_handler(QuietFrame(Kali, Target), answer)
          /\ UNCHANGED <<chainVars, auditVars>>
    /\ UNCHANGED <<detVars, monVars, idsVars, hubVars, portVars, fifoVars,
                   adminVars, startVars,
                   lateVars>>

SpecAudit == InitAudit /\ [][NextAudit]_vars

\* Two broadcast calls: sockets connect, broadcast is called once, and
\* called a second time after that. A coroutine runs while the other one
\* is suspended in an await.
InitFifo ==
    /\ now = 0
    /\ AllNew
    /\ is_initialized = FALSE

NextFifo ==
    /\ \/ /\ \E websocket \in Sockets, how \in {"DISCONNECTED", "BROKEN"} :
                SocketFails(websocket, how)
          /\ UNCHANGED fifoVars
       \/ /\ InAwait(bcast) /\ InAwait(bcast_b)
          /\ \E websocket \in Sockets : connect(websocket)
          /\ UNCHANGED fifoVars
       \/ /\ InAwait(bcast_b)
          /\ \/ /\ broadcasts = 0
                /\ \E message \in Messages : broadcast_begin(message)
             \/ broadcast_loop
             \/ broadcast_finish
          /\ UNCHANGED fifoVars
       \/ /\ InAwait(bcast)
          /\ \/ later_broadcast_begin
             \/ later_broadcast_loop
             \/ later_broadcast_finish
    /\ UNCHANGED <<chainVars, detVars, monVars, idsVars, rtVars, portVars,
                   auditVars, adminVars, startVars,
                   lateVars>>

SpecFifo == InitFifo /\ [][NextFifo]_vars

\* Manual threat management: alerts are predicted, then blocked and
\* unblocked by id.
InitAdmin ==
    /\ now = 0
    /\ AllNew
    /\ is_initialized = TRUE

NextAdmin ==
    /\ \/ /\ next_id <= MaxAlerts
          /\ \E answer \in ClassifierAnswers :
                predict_attack(extract_packet_features(QuietFrame(Kali, Target)),
                               answer)
          /\ UNCHANGED adminVars
       \/ /\ admin_calls < MaxAdminCalls
          /\ \E threat_id \in 1..(MaxAlerts + 1) :
                block_threat(threat_id) \/ unblock_threat(threat_id)
          /\ UNCHANGED monVars
    /\ UNCHANGED <<chainVars, detVars, hubVars, rtVars, portVars, auditVars,
                   fifoVars, startVars,
                   lateVars>>

SpecAdmin == InitAdmin /\ [][NextAdmin]_vars

\* The start-up: initialize() is called once on whatever the model path
\* holds, then packets are classified.
InitStart ==
    /\ now = 0
    /\ AllNew
    /\ is_initialized = FALSE

NextStart ==
    /\ \/ \E file \in ModelFiles : initialize(file)
       \/ /\ predict_calls < MaxPredictCalls
          /\ \E answer \in ClassifierAnswers :
                predict_attack_call(
                    extract_packet_features(QuietFrame(Kali, Target)), answer)
    /\ UNCHANGED <<chainVars, detVars, hubVars, rtVars, portVars, auditVars,
                   fifoVars, adminVars, lateVars>>

SpecStart == InitStart /\ [][NextStart]_vars

\* The threshold detector called packet by packet, on a detector earlier
\* traffic may have brought to its thresholds.
InitDetect ==
    /\ now = 0
    /\ AllButDetNew
    /\ DetReached
    /\ is_initialized = FALSE

NextDetect ==
    /\ detect_calls < MaxDetectCalls
    /\ \E packet \in DetectFeed : detect_attack_call(packet)
    /\ UNCHANGED <<chainVars, monVars, idsVars, hubVars, rtVars, portVars,
                   auditVars, fifoVars, adminVars, startVars, frameVars,
                   mineVars, deliveryVars>>

SpecDetect == InitDetect /\ [][NextDetect]_vars

\* One add_block call on a fresh chain, its nonce search taken iteration
\* by iteration under every hash function.
InitMine ==
    /\ now = 0
    /\ AllNew
    /\ is_initialized = FALSE

NextSearch ==
    /\ \/ \E data \in Payloads, fps \in HashFunctions :
             add_block_begin(data, fps)
       \/ mine_step
       \/ add_block_finish
    /\ UNCHANGED <<detVars, monVars, idsVars, hubVars, rtVars, portVars,
                   auditVars, fifoVars, adminVars, startVars, callVars,
                   frameVars, deliveryVars>>

\* The call runs to its end whenever it can.
SpecSearch == InitMine /\ [][NextSearch]_vars /\ WF_vars(NextSearch)

\* The call may also be abandoned while it mines.
NextMine ==
    \/ NextSearch
    \/ /\ add_block_abandoned
       /\ UNCHANGED <<detVars, monVars, idsVars, hubVars, rtVars, portVars,
                      auditVars, fifoVars, adminVars, startVars, callVars,
                      frameVars, deliveryVars>>

SpecMine == InitMine /\ [][NextMine]_vars

\* Targeted delivery: sockets connect, subscribe to the topic or are given
\* the user id, some of them fail, and broadcast_to_topic or send_to_user
\* is called once. The dict is written by no other coroutine during the
\* call.
InitDeliver ==
    /\ now = 0
    /\ AllNew
    /\ is_initialized = FALSE

NextDeliver ==
    /\ \/ /\ delivery.pc = "idle"
          /\ \E websocket \in Sockets : connect(websocket)
          /\ UNCHANGED delivery
       \/ /\ \E websocket \in Sockets, how \in {"DISCONNECTED", "BROKEN"} :
                SocketFails(websocket, how)
          /\ UNCHANGED delivery
       \/ \E websocket \in Sockets, topic \in Topics :
             subscribe_to_topic(websocket, topic)
       \/ \E websocket \in Sockets, user_id \in UserIds :
             set_user_id(websocket, user_id)
       \/ \E topic \in Topics, message \in Messages :
             deliver_begin("topic", topic, message)
       \/ \E user_id \in UserIds, message \in Messages :
             deliver_begin("user", user_id, message)
       \/ deliver_loop
    /\ UNCHANGED <<chainVars, detVars, monVars, idsVars, rtVars, portVars,
                   auditVars, fifoVars, adminVars, startVars, callVars,
                   frameVars, mineVars>>

SpecDeliver == InitDeliver /\ [][NextDeliver]_vars

(***************************************************************************)
(* Claims                                                                  *)
(***************************************************************************)

\* C1: a chain built purely through sequential add_block calls (no payload
\* changed after insertion) is valid, whatever difficulty each block was
\* mined at.
C1_AppendOnlyChainIsValid == (mutated = {}) => is_chain_valid

\* C1 witness: a full chain built by add_block alone, in which the
\* difficulty was lowered during mining and still holds a block mined at a
\* higher difficulty than the current one.
C1_Witness ==
    /\ mutated = {}
    /\ Len(chain) = MaxBlocks + 1
    /\ difficulty < InitialDifficulty
    /\ \E i \in 2..Len(chain) : LeadingZeros(chain[i].hash) > difficulty
    /\ is_chain_valid

\* C2: once the payload of any single block, from the genesis block to the
\* head, has been changed after insertion, is_chain_valid returns false.
C2_MutationDetected == (Cardinality(mutated) = 1) => ~is_chain_valid

\* The part of C2 the code does provide: a changed payload of any block
\* other than the genesis block is detected.
C2_NonGenesisMutationDetected ==
    (mutated # {} /\ mutated # {0}) => ~is_chain_valid

\* C3: a source that sends SYN-only packets to the monitored target gets no
\* SYN-flood alert for its packets 1 to 50 and exactly one "Flood Attacks" /
\* HIGH alert on its 51st, after which the SYN counter is 0.
C3_SynFloodOnThe51st ==
    /\ IsSynFloodAlert(threat) =>
          /\ synFrom[threat.source_ip] = SynThreshold + 1
          /\ threat.threat_level = "HIGH"
          /\ syn_count = 0
    /\ ~IsSynFloodAlert(threat) =>
          \A s \in Sources : synFrom[s] <= SynThreshold

\* What the code provides instead of C3: the alert fires on the 51st
\* SYN-only packet counted over all sources together.
C3_SynFloodOnThe51stOverall ==
    LET total == synFrom["192.168.100.152"] + synFrom["192.168.100.153"]
    IN  /\ IsSynFloodAlert(threat) =>
              total = SynThreshold + 1 /\ threat.threat_level = "HIGH"
                                       /\ syn_count = 0
        /\ ~IsSynFloodAlert(threat) => total = syn_count /\ total <= SynThreshold

\* C4: the port-scan alert is a "Reconnaissance" / MEDIUM alert fired on the
\* 11th distinct port, it lists every port that was in the set when it
\* fired, and the port set is empty afterwards.
C4_PortScanListsAllPorts ==
    IsPortScanAlert(threat) =>
        /\ threat.threat_level = "MEDIUM"
        /\ threat.total_ports = PortThreshold + 1
        /\ Cardinality(threat.scanned_ports) = threat.total_ports
        /\ port_scan_ports = {}

\* What the code provides instead of C4: the alert lists 10 of the 11 ports.
C4_PortScanListsTenPorts ==
    IsPortScanAlert(threat) =>
        /\ threat.threat_level = "MEDIUM"
        /\ threat.total_ports = PortThreshold + 1
        /\ Cardinality(threat.scanned_ports) = ListedPorts
        /\ port_scan_ports = {}

\* C5: the evidence snapshot built for an alert never holds more frames
\* than the per-flow buffer capacity, nor a frame older than the capture
\* window relative to the time of the call.
C5_SnapshotBounded ==
    pcap_data # NoPcap =>
        /\ Len(pcap_data.frames) <= PcapBufferCap
        /\ \A k \in 1..Len(pcap_data.frames) :
              pcap_data.frames[k].timestamp >= pcap_data.at - PcapWindowSeconds

\* Supporting C5: no frame of a snapshot is older than the capture window,
\* and a snapshot holds at most the capacity of the two directions together.
C5_SnapshotWithinWindow ==
    pcap_data # NoPcap =>
        /\ Len(pcap_data.frames) <= 2 * PcapBufferCap
        /\ \A k \in 1..Len(pcap_data.frames) :
              pcap_data.frames[k].timestamp >= pcap_data.at - PcapWindowSeconds

\* The position of a level in the table LOW < MEDIUM < HIGH < CRITICAL.
Rank(level) ==
    CASE level = "LOW" -> 1
      [] level = "MEDIUM" -> 2
      [] level = "HIGH" -> 3
      [] level = "CRITICAL" -> 4
      [] OTHER -> 0

\* C7: for a non-benign label, a confidence below 0.7 gives the label's
\* base level one step down (LOW stays LOW), a confidence at or above 0.7
\* gives the base level; "Backdoors & Exploits" at 0.65 gives HIGH.
C7_DowngradeBelowThreshold ==
    level_call.class_name # "Benign" =>
        /\ Rank(level_call.level) =
              IF level_call.confidence < 70
              THEN Max(Rank(BaseLevel(level_call.class_name)) - 1, 1)
              ELSE Rank(BaseLevel(level_call.class_name))
        /\ Rank(level_call.level) >= 1
        /\ (level_call.class_name = "Backdoors & Exploits"
            /\ level_call.confidence = 65) => level_call.level = "HIGH"

C7_Witness ==
    \/ /\ level_call.class_name = "Backdoors & Exploits"
       /\ level_call.confidence = 65
       /\ level_call.level = "HIGH"
    \/ /\ level_call.class_name = "Reconnaissance"
       /\ level_call.confidence = 70
       /\ level_call.level = "LOW"

\* The coroutines that have ended and had an alert to handle.
HandledAlerts ==
    {tasks[i].alert : i \in {k \in 1..Len(tasks) :
                                 tasks[k].pc = "done" /\ tasks[k].alert # NoAlert}}

\* C8: every alert of either detection path is followed by an entry of the
\* audit chain for that alert: once the alert's coroutine has ended, the
\* chain holds a block whose payload is the event of that alert.
C8_AlertIsAudited ==
    \A alert \in HandledAlerts :
        \E k \in 2..Len(chain) : chain[k].data = ThreatEvent(alert.id)

\* C9: an alert of the signature path is handled as one of the classifier
\* path: once its coroutine has ended it was broadcast, and it was handed
\* to persistence together with what the evidence snapshot of its
\* conversation gave.
C9_SamePipelineForBothPaths ==
    \A alert \in HandledAlerts :
        /\ InList(alert, broadcast_log)
        /\ \E k \in 1..Len(save_log) : save_log[k].alert = alert

\* Supporting C9: an alert of the classifier path that was sent is handed
\* to persistence with what the evidence snapshot gave.
C9_ClassifierPathHandled ==
    \A alert \in HandledAlerts :
        alert.detection_method = "ml" =>
            /\ InList(alert, broadcast_log)
            /\ \E k \in 1..Len(save_log) : save_log[k].alert = alert

\* C10: a classification with the label "Benign" produces no alert: none
\* is broadcast and none is saved, whatever the confidence.
C10_BenignNeverAlerts ==
    /\ \A k \in 1..Len(broadcast_log) :
          broadcast_log[k].attack_type # "Benign"
    /\ \A k \in 1..Len(save_log) :
          save_log[k].alert.attack_type # "Benign"

\* Supporting C10: a "Benign" classification with confidence at most 0.7
\* is neither broadcast nor saved.
C10_BenignLowConfidenceSilent ==
    /\ \A k \in 1..Len(broadcast_log) :
          broadcast_log[k].attack_type = "Benign"
              => broadcast_log[k].confidence > 70
    /\ \A k \in 1..Len(save_log) :
          save_log[k].alert.attack_type = "Benign"
              => save_log[k].alert.confidence > 70

\* C6: a broadcast to K subscribers in which delivery to exactly one
\* subscriber j fails delivers the message to the K-1 others, returns,
\* removes j and leaves K-1 connections (the list of connections being the
\* one the broadcast started from).
C6_OneFailureIsolated ==
    [][(/\ bcast.pc = "loop"
        /\ bcast'.pc = "idle"
        /\ Len(bcast.disconnected) = 1
        /\ active_connections = bcast.connections)
       => LET j == bcast.disconnected[1]
              others == Elements(bcast.connections) \ {j}
          IN  /\ bcast.delivered = others
              /\ \A ws \in others :
                    /\ inbox[ws] # <<>>
                    /\ inbox[ws][Len(inbox[ws])] = bcast.message
                    /\ InList(ws, active_connections')
              /\ ~InList(j, active_connections')
              /\ j \notin DOMAIN connection_info'
              /\ Len(active_connections') = Len(bcast.connections) - 1]_vars

\* A broadcast to three subscribers has just returned, the first of which
\* failed and was removed while the two others received the message.
C6_Witness ==
    /\ bcast.pc = "idle"
    /\ Len(bcast.connections) = 3
    /\ Len(bcast.disconnected) = 1
    /\ bcast.disconnected[1] = bcast.connections[1]
    /\ Cardinality(bcast.delivered) = 2
    /\ Len(active_connections) = 2
    /\ ~InList(bcast.disconnected[1], active_connections)

\* The packets of the stand-alone pipeline's buffer that were classified
\* as "Benign".
RtClassifiedBenign ==
    {k \in 1..Len(rt_packet_buffer) : rt_packet_buffer[k].prediction = "Benign"}

\* C11: a classification failure is a distinct outcome, never recorded or
\* counted as benign / not malicious: every packet recorded as not
\* malicious was classified "Benign", and the benign count of the traffic
\* statistics counts only such packets.
C11_FailureNeverBenign ==
    /\ \A k \in 1..Len(rt_packet_buffer) :
          ~rt_packet_buffer[k].is_malicious => k \in RtClassifiedBenign
    /\ get_traffic_stats.benign = Cardinality(RtClassifiedBenign)

\* Supporting C11: a failed classification raises no alert and appends no
\* block: alerts and blocks are as many as the packets recorded malicious.
C11_FailureRaisesNoAlert ==
    /\ Len(rt_attack_alerts) = get_traffic_stats.malicious
    /\ Len(rt_chain) = 1 + get_traffic_stats.malicious
    /\ \A k \in 1..Len(rt_attack_alerts) :
          rt_attack_alerts[k].attack_type # "None"

\* C12: export/import round trip: importing the unchanged export of a
\* chain built by add_block calls alone is accepted and leaves the
\* instance with a chain equal to the exported one, which is_chain_valid
\* accepts.
C12_RoundTripAccepted ==
    [][(imports' = imports + 1 /\ doc_changed = {} /\ mutated = {})
       => /\ import_result' = "imported"
          /\ chain' = export_source
          /\ is_chain_valid_of(chain', difficulty')]_vars

\* Supporting C12: when the unchanged export is accepted, the chain is the
\* exported one and is_chain_valid accepts it.
C12_RoundTripExactWhenAccepted ==
    [][(imports' = imports + 1 /\ doc_changed = {} /\ mutated = {}
        /\ import_result' = "imported")
       => /\ chain' = export_source
          /\ is_chain_valid_of(chain', difficulty')]_vars

\* Block k (counted from 1) of a chain fails validation at the given
\* difficulty: its hash is not the digest of its fields, the digest misses
\* the proof-of-work target, or it is not linked to the block before it.
BlockFails(blocks, k, diff) ==
    \/ blocks[k].hash # calculate_hash(blocks[k])
    \/ LeadingZeros(blocks[k].hash) < diff
    \/ /\ k > 1
       /\ \/ blocks[k].previous_hash # blocks[k - 1].hash
          \/ blocks[k].index # blocks[k - 1].index + 1

\* C13: import_chain of a chain in which some block fails hash, linkage or
\* proof-of-work validation raises and leaves the instance's chain as it
\* was.
C13_InvalidImportRejected ==
    [][(/\ imports' = imports + 1
        /\ \E k \in 1..Len(exported) :
              BlockFails(json_loads(exported), k, GenesisBlock(now).difficulty))
       => /\ import_result' = "ValueError"
          /\ chain' = chain]_vars

\* Supporting C13: a chain in which a block after the genesis block fails
\* validation is rejected, and a rejected import leaves the chain as it was.
C13_InvalidLaterBlockRejected ==
    [][(imports' = imports + 1)
       => /\ (\E k \in 2..Len(exported) :
                 BlockFails(json_loads(exported), k,
                            GenesisBlock(now).difficulty))
             => import_result' = "ValueError"
          /\ import_result' = "ValueError" => chain' = chain]_vars

\* No two blocks of a chain share an index or a previous_hash, and each
\* block's previous_hash is the hash of the block before it.
WellLinked(blocks) ==
    /\ \A i, j \in 1..Len(blocks) :
          i # j => /\ blocks[i].index # blocks[j].index
                   /\ blocks[i].previous_hash # blocks[j].previous_hash
    /\ \A i \in 2..Len(blocks) : blocks[i].previous_hash = blocks[i - 1].hash

\* C14: add_block is serialized: with add_block calls issued concurrently,
\* one block at a time is mined and appended, so no two blocks of the chain
\* share an index or a previous_hash and every block is linked to the one
\* before it.
C14_AppendSerialized ==
    /\ WellLinked(chain)
    /\ WellLinked(rt_chain)
    /\ \A r, q \in Requests :
          (r # q /\ requests[r].pc \in {"mine", "append"})
              => requests[q].pc \notin {"mine", "append"}

\* Two requests were in flight at the same time and both appended a block.
C14_Witness ==
    /\ overlap
    /\ \A r \in Requests : requests[r].pc = "done"
    /\ Len(chain) = MaxRequests + 1
    /\ Len(rt_chain) > 1

\* C15: FIFO per subscriber: a subscriber that receives the messages of
\* two broadcast calls receives the message of the earlier call first,
\* also when the two coroutines interleave at their awaits of send_text.
C15_FifoPerSubscriber ==
    \A ws \in Sockets :
        \A i, j \in 1..Len(inbox[ws]) :
            (i < j /\ inbox[ws][i] = LaterMessage) => inbox[ws][j] = LaterMessage

\* Supporting C15: the subscriber that is first in the list of connections
\* receives the earlier call's message first.
C15_FifoForFirstSubscriber ==
    \A ws \in Sockets :
        (bcast.connections # <<>> /\ ws = bcast.connections[1]) =>
            \A i, j \in 1..Len(inbox[ws]) :
                (i < j /\ inbox[ws][i] = LaterMessage)
                    => inbox[ws][j] = LaterMessage

\* C16: detection state is keyed by source: a SYN-flood alert fires only
\* when a single source by itself has exceeded the threshold, so SYN
\* packets of two sources that stay at 30 each produce no alert.
C16_KeyedBySource ==
    /\ IsSynFloodAlert(threat) =>
          \E s \in Sources : s = threat.source_ip /\ synFrom[s] > SynThreshold
    /\ (\A s \in Sources : synFrom[s] <= 30) => ~IsSynFloodAlert(threat)

\* C17: every successful manual block or unblock of an alert by id sets
\* the alert's blocked field accordingly and appends an audit event to the
\* audit chain.
C17_BlockUnblockAudited ==
    [][(admin_calls' = admin_calls + 1 /\ admin_result'.status = 200)
       => /\ recent_alerts'[FindAlert(admin_result'.threat_id)].blocked
                = (admin_result'.op = "block")
          /\ Len(chain') = Len(chain) + 1]_vars

\* Supporting C17: a successful block or unblock sets the blocked field
\* accordingly.
C17_BlockedFieldSet ==
    [][(admin_calls' = admin_calls + 1 /\ admin_result'.status = 200)
       => recent_alerts'[FindAlert(admin_result'.threat_id)].blocked
              = (admin_result'.op = "block")]_vars

\* An alert whose source and destination are both outside the subnet.
OutsideSubnet(alert) ==
    /\ ~is_local_network_ip(alert.source_ip)
    /\ ~is_local_network_ip(alert.destination_ip)

\* C18: with local-network-only filtering enabled, a packet whose source
\* and destination are both outside the subnet is filtered out before
\* detection: no alert is produced for it and none is broadcast, on
\* either detection path.
C18_OutsideTrafficFiltered ==
    local_network_only =>
        /\ \A k \in 1..Len(broadcast_log) : ~OutsideSubnet(broadcast_log[k])
        /\ \A k \in 1..Len(detected_attacks) : ~OutsideSubnet(detected_attacks[k])
        /\ \A k \in 1..Len(recent_alerts) : ~OutsideSubnet(recent_alerts[k])

\* Supporting C18: with the filtering enabled, the classifier path
\* produces and broadcasts no alert for such a packet.
C18_ClassifierPathFiltered ==
    local_network_only =>
        /\ \A k \in 1..Len(broadcast_log) :
              broadcast_log[k].detection_method = "ml"
                  => ~OutsideSubnet(broadcast_log[k])
        /\ \A k \in 1..Len(recent_alerts) : ~OutsideSubnet(recent_alerts[k])

\* The artifact the adapter loaded lacks the model, the scaler or the label
\* encoder, or its feature-name list is empty.
ArtifactIncomplete ==
    /\ model_pipeline # NoPipeline
    /\ \/ model = None
       \/ scaler = None
       \/ label_encoder = None
       \/ feature_names = <<>>

\* C19: when the loaded artifact lacks the model, the scaler or the label
\* encoder, or its feature-name list is empty, initialize raises and the
\* service is not in the initialized state.
C19_FailsFastOnIncompleteArtifact ==
    (init_result # "none" /\ ArtifactIncomplete)
        => (init_result = "raised" /\ ~is_initialized)

\* C19, what the start-up does check: initialize raises exactly when no
\* artifact could be loaded (no file at any path, or pickle.load failed),
\* and then the service is not initialized; whenever it returns the service
\* is initialized.
C19_RaisesOnlyWhenNothingLoaded ==
    /\ (init_result = "raised") => (model_pipeline = NoPipeline /\ ~is_initialized)
    /\ (init_result = "returned") => (model_pipeline # NoPipeline /\ is_initialized)
    /\ (init_result = "none") => ~is_initialized

\* Every nonce of the attempt budget, 0..NonceBudget, fails the target of d
\* leading zeros for this block.
BudgetExhausted(block, d) ==
    \A n \in 0..NonceBudget :
        ~StartsWithZeros(calculate_hash([block EXCEPT !.nonce = n]), d)

\* C20: mining is bounded and only ever lowers the difficulty. No step
\* raises self.difficulty or takes it below 1; when add_block appends a
\* block, the difficulty was lowered one level at a time and only on a
\* budget overrun (every level given up had all nonces 0..NonceBudget
\* tried without success for that block), and at the level reached the
\* search restarted from nonce 0 on the same block (same index, timestamp,
\* payload and previous hash) and stopped at its first nonce that meets
\* the target.
C20_BudgetOverrunLowersByOne ==
    [][/\ difficulty' <= difficulty
       /\ difficulty' >= 1
       /\ (Len(chain') = Len(chain) + 1) =>
             LET b == chain'[Len(chain')]
             IN  /\ b.index = Len(chain)
                 /\ b.timestamp = now
                 /\ b.previous_hash = chain[Len(chain)].hash
                 /\ \A d \in (difficulty' + 1)..difficulty :
                       BudgetExhausted(b, d)
                 /\ b.nonce \in 0..NonceBudget
                 /\ b.hash = calculate_hash(b)
                 /\ StartsWithZeros(b.hash, difficulty')
                 /\ \A n \in 0..(b.nonce - 1) :
                       ~StartsWithZeros(
                           calculate_hash([b EXCEPT !.nonce = n]),
                           difficulty')]_vars

\* C20 witness: blocks were appended to an untampered chain and the
\* difficulty is below the one the construction left, so the mining of an
\* appended block overran the budget; that block was found at the lowered
\* difficulty after every nonce had failed the level above.
C20_Witness ==
    /\ mutated = {}
    /\ Len(chain) >= 2
    /\ difficulty >= 1
    /\ difficulty < GenesisBlock(chain[1].timestamp).difficulty
    /\ \E k \in 2..Len(chain) :
          /\ BudgetExhausted(chain[k], difficulty + 1)
          /\ StartsWithZeros(chain[k].hash, difficulty)

\* C21: every TCP packet addressed to the monitored target, a SYN-only
\* packet included, has its destination port in the port set once
\* detect_attack has handled it (or the call returned the port-scan alert,
\* which clears the set).
C21_EveryTcpPortRecorded ==
    (/\ detect_calls > 0
     /\ packet_in.ip
     /\ packet_in.dst = Target
     /\ packet_in.layer = "TCP")
        => (packet_in.dport \in port_scan_ports \/ IsPortScanAlert(threat))

\* C21, what the code does: the port of a TCP packet to the target that is
\* not SYN-only is recorded.
C21_NonSynTcpPortRecorded ==
    (/\ detect_calls > 0
     /\ packet_in.ip
     /\ packet_in.dst = Target
     /\ packet_in.layer = "TCP"
     /\ ~IsSynOnly(packet_in))
        => (packet_in.dport \in port_scan_ports \/ IsPortScanAlert(threat))

\* detect_attack returning the ARP-scan alert
IsArpScanAlert(t) ==
    t.attack_type = "Reconnaissance" /\ t.protocol = "ARP"
    /\ t.threat_level = "LOW"

\* The ARP rule as stated: the counter goes up by one, and past the
\* threshold the LOW alert is returned and the counter is back at 0.
ArpRuleApplied ==
    IF arp_count + 1 > ArpThreshold
    THEN arp_count' = 0 /\ IsArpScanAlert(threat')
    ELSE arp_count' = arp_count + 1 /\ threat' = NoThreat

\* C22: every ARP frame addressed to the monitored target that
\* detect_attack is called with increments the ARP counter; past the
\* threshold one LOW alert is returned and the counter is reset.
C22_EveryArpFrameCounted ==
    [][(detect_calls' # detect_calls /\ packet_in'.layer = "ARP"
        /\ packet_in'.dst = Target)
          => ArpRuleApplied]_vars

\* C22, what the code does: the ARP rule is applied to a packet object that
\* carries an IP layer under its ARP layer.
C22_ArpOverIpCounted ==
    [][(detect_calls' # detect_calls /\ packet_in'.layer = "ARP"
        /\ packet_in'.dst = Target /\ packet_in'.ip)
          => ArpRuleApplied]_vars

\* C23: a call of detect_attack with a packet that is not addressed to the
\* monitored target returns no alert and leaves the counters and the port
\* set as they were.
C23_OtherDestinationIgnored ==
    [][(detect_calls' # detect_calls /\ packet_in'.dst # Target)
          => /\ threat' = NoThreat
             /\ UNCHANGED <<syn_count, port_scan_ports, icmp_count,
                            arp_count>>]_vars

\* C23 witness: a SYN-only segment to another address was handled by a
\* detector whose SYN counter stood at its threshold and whose port set
\* was full; neither rule fired.
C23_Witness ==
    /\ detect_calls > 0
    /\ packet_in.ip /\ packet_in.dst # Target /\ IsSynOnly(packet_in)
    /\ syn_count = SynThreshold
    /\ Cardinality(port_scan_ports) = PortThreshold
    /\ threat = NoThreat

\* The flow keys whose window the step has written to.
InsertedKeys == {key \in FlowKeys : pcap_buffer'[key] # pcap_buffer[key]}

\* C24: after every insert of a frame, the window of its flow key holds at
\* most PcapBufferCap entries and no entry older than the capture window.
C24_WindowTrimmedOnInsert ==
    [][(captured' # captured) =>
          \A key \in InsertedKeys :
              /\ Len(pcap_buffer'[key]) <= PcapBufferCap
              /\ \A k \in 1..Len(pcap_buffer'[key]) :
                    pcap_buffer'[key][k].timestamp >= now - PcapWindowSeconds]_vars

\* C24, what the code does: the insert trims by capacity, keeping the
\* latest PcapBufferCap frames with the new frame last.
C24_CapacityTrimmedOnInsert ==
    [][(captured' # captured) =>
          \A key \in InsertedKeys :
              /\ Len(pcap_buffer'[key]) <= PcapBufferCap
              /\ pcap_buffer'[key] =
                    LastN(Append(pcap_buffer[key],
                                 pcap_buffer'[key][Len(pcap_buffer'[key])]),
                          PcapBufferCap)
              /\ pcap_buffer'[key][Len(pcap_buffer'[key])].timestamp = now]_vars

\* C25: the window of every flow key either keeps receiving frames or is
\* eventually removed from the buffer for good.
C25_IdleWindowCollected ==
    \A key \in FlowKeys :
        \/ []<><<pcap_buffer'[key] # pcap_buffer[key]>>_vars
        \/ <>[](pcap_buffer[key] = <<>>)

\* C25, what the code does: no step removes a flow key from the buffer or
\* empties its window.
C25_WindowNeverRemoved ==
    [][\A key \in FlowKeys :
          (pcap_buffer[key] # <<>>) => (pcap_buffer'[key] # <<>>)]_vars

\* The coroutine of the classifier for a frame has ended without an alert
\* (under SpecDegraded: predict_attack raised).
ClassificationFailed(packet_info) ==
    \E j \in 1..Len(tasks) :
        /\ tasks[j].kind = "ml"
        /\ tasks[j].pc = "done"
        /\ tasks[j].packet_info = packet_info
        /\ tasks[j].alert = NoAlert

\* C26: the signature path does not depend on the classifier. Whether the
\* IDS service is initialized or not, _process_packet evaluates every IP
\* frame against the signatures and schedules the alert of a match; and
\* whatever became of the classifier's coroutine for that frame, the alert
\* coroutine, once it has run, has handed its alert to broadcast_json.
C26_SignaturePathIndependent ==
    [][/\ (/\ captured' # captured
           /\ frame_in'.ip
           /\ MatchedSignature(extract_packet_features(frame_in')) # "none")
             => /\ Len(tasks') > Len(tasks)
                /\ tasks'[Len(tasks')].kind = "kali"
                /\ tasks'[Len(tasks')].packet_info =
                      extract_packet_features(frame_in')
                /\ InList(tasks'[Len(tasks')].alert, detected_attacks')
       /\ \A i \in 1..Len(tasks') :
             (tasks'[i].kind = "kali" /\ tasks'[i].pc # "start")
                => InList(tasks'[i].alert, broadcast_log')]_vars

\* C26 witness: the classifier's coroutine for a SYN probe has ended in an
\* error, and the signature alert for the same frame has been broadcast.
C26_Witness ==
    \E i \in 1..Len(tasks) :
        /\ tasks[i].kind = "kali"
        /\ tasks[i].pc = "done"
        /\ InList(tasks[i].alert, broadcast_log)
        /\ ClassificationFailed(tasks[i].packet_info)
        /\ \A k \in 1..Len(broadcast_log) :
              broadcast_log[k].detection_method = "kali_signature"

\* The hash recomputed from a block's index, timestamp, payload, previous
\* hash and nonce: the genesis block was hashed at construction, the block
\* of the add_block call by the hash function of that call.
Recomputed(block) ==
    IF block.index = 0 THEN calculate_hash(block) ELSE JobHash(block)

\* C27: no partially-applied block. In every state, also after add_block
\* was abandoned or raised while mining, every block of the chain has a
\* hash, that hash is the one recomputed from the block's fields, and a
\* block other than the genesis block is in the chain only once the
\* add_block call that mined it has returned.
C27_NoPartiallyAppliedBlock ==
    /\ \A k \in 1..Len(chain) :
          /\ chain[k].hash # NoHash
          /\ chain[k].hash = Recomputed(chain[k])
    /\ (Len(chain) > 1) => (job.pc = "returned")
    /\ (job.pc \in {"mining", "mined", "raised"}) => (Len(chain) = 1)

\* C27 witness: the call was abandoned in the middle of the nonce search,
\* after the difficulty had been lowered, and the chain holds the genesis
\* block alone.
C27_Witness ==
    /\ job.pc = "raised"
    /\ job.new_block.hash = NoHash
    /\ job.new_block.nonce > 0
    /\ difficulty < InitialDifficulty
    /\ Len(chain) = 1

\* C28: every add_block call eventually returns a mined block, whatever
\* the hash function gives.
C28_MiningTerminates == (job.pc = "mining") ~> (job.pc = "returned")

\* C28, what the code does: the call returns when some nonce of the budget
\* gives a digest with a leading zero.
C28_TerminatesWhenAZeroExists ==
    (/\ job.pc = "mining"
     /\ \E n \in 0..MineBudget : job.fps[n] < 8)
        ~> (job.pc = "returned")

\* The alerts of recent_alerts whose blocked flag is set.
BlockedAlerts == {k \in 1..Len(recent_alerts) : recent_alerts[k].blocked}

\* C29: attack_stats["blocked_attacks"] equals the number of alerts whose
\* blocked flag is true.
C29_BlockedCountMatchesFlags ==
    attack_stats.blocked_attacks = Cardinality(BlockedAlerts)

\* C29, what the code does: the count is never negative and never below
\* the number of blocked alerts, and unblock_threat lowers it only when it
\* clears a flag.
C29_BlockedCountNeverBelowFlags ==
    [][/\ attack_stats'.blocked_attacks >= Cardinality(BlockedAlerts)'
       /\ attack_stats'.blocked_attacks >= 0
       /\ (attack_stats'.blocked_attacks < attack_stats.blocked_attacks)
             => Cardinality(BlockedAlerts)' = Cardinality(BlockedAlerts) - 1]_vars

\* C30: a targeted delivery in which delivery to a matching subscriber
\* failed has removed that subscriber, has completed without raising, and
\* has reached every other matching subscriber that is still connected.
C30_TargetedDeliveryIsolated ==
    (delivery.pc \in {"returned", "raised"} /\ delivery.failed # {})
        => /\ delivery.pc = "returned"
           /\ \A ws \in delivery.failed : ~InList(ws, active_connections)
           /\ \A ws \in delivery.matching \ delivery.failed :
                 (client_state[ws] = "CONNECTED")
                    => InList(delivery.message, inbox[ws])

\* C30, what the code does: the subscriber whose delivery failed is removed
\* from the list and the dict, the subscribers ahead of it received the
\* message, and the call then ends in RuntimeError at the next turn of the
\* loop; a call in which no delivery fails returns and reaches every
\* matching subscriber.
C30_FailureEndsTheCall ==
    /\ \A ws \in delivery.failed :
          ~InList(ws, active_connections) /\ ws \notin DOMAIN connection_info
    /\ \A ws \in delivery.delivered : InList(delivery.message, inbox[ws])
    /\ Cardinality(delivery.failed) <= 1
    /\ (delivery.pc = "raised") <=>
          (delivery.pc # "loop" /\ delivery.failed # {})
    /\ (delivery.pc = "returned") =>
          (delivery.delivered = delivery.matching)

====
